---------------------------- MODULE Spec2Model ----------------------------
(***************************************************************************)
(* Model of the dxgkrnl host-communication core:                           *)
(*   - the VM bus channel, send_sync and the receive path (dxgvmbus.c)     *)
(*   - the adapter lifecycle and its core lock (dxgadapter.c)              *)
(*   - the ordered device teardown (dxgadapter.c)                          *)
(*   - the batch allocation create and its rollback (dxgvmbus.c)           *)
(* Each part has its own specification over the one set of variables; the  *)
(* variables a specification does not use keep their initial value.        *)
(***************************************************************************)
EXTENDS Integers, Naturals, Sequences, FiniteSets, TLC

(***************************************************************************)
(* State                                                                   *)
(***************************************************************************)
\* the VM bus channel and the callers of dxgvmb_send_sync_msg
VARIABLES
    spc,                \* position of each caller inside dxgvmb_send_sync_msg
    sret,               \* value dxgvmb_send_sync_msg returns to each caller
    packet,             \* each caller's struct dxgvmbuspacket
    buffer,             \* each caller's result buffer (packet->buffer)
    packet_request_id,  \* channel->packet_request_id
    packet_list,        \* channel->packet_list_head: callers whose packet is linked
    packet_cache_used,  \* objects handed out by channel->packet_cache
    host_pending,       \* transaction ids the transport accepted, not yet answered
    host_replied        \* transaction id -> payload length of the reply sent

chanVars == <<spc, sret, packet, buffer, packet_request_id, packet_list,
              packet_cache_used, host_pending, host_replied>>

\* the adapter and the threads operating on it
VARIABLES
    apc,                \* position of each thread inside the adapter operations
    aret,               \* value the last lock acquisition returned to each thread
    adapter_state,      \* adapter->adapter_state
    core_lock_writer,   \* adapter->core_lock: the thread holding it for write, or 0
    core_lock_readers,  \* adapter->core_lock: the threads holding it for read
    stopping_adapter,   \* adapter->stopping_adapter
    ch_packet_cache,    \* adapter->channel.packet_cache != NULL
    ch_channel,         \* adapter->channel.channel != NULL (vmbus channel open)
    global_channel_initialized,   \* dxgglobal->global_channel_initialized
    stop_calls,         \* how often dxgadapter_stop has run each of its steps
    global_channel      \* dxgglobal->channel: open or not, and how often it
                        \* was initialised

adVars == <<apc, aret, adapter_state, core_lock_writer, core_lock_readers,
            stopping_adapter, ch_packet_cache, ch_channel,
            global_channel_initialized, stop_calls, global_channel>>

\* one device, its children and the threads destroying it
VARIABLES
    dpc,                \* position of each thread inside dxgdevice_destroy
    object_state,       \* device->object_state
    handle_valid,       \* device->handle_valid
    device_lock_writer, \* device->device_lock: the thread holding it for write, or 0
    device_list_linked, \* device->device_list_entry.next != NULL
    context_list,       \* number of contexts on device->context_list_head
    alloc_list,         \* number of allocations on device->alloc_list_head
    resource_list,      \* number of resources on device->resource_list_head
    hmgr,               \* process->handle_table: registered handles per type
    adapter_kref,       \* adapter->adapter_kref
    device_kref,        \* device->device_kref
    device_handle,      \* per call: the local device_handle.v != 0
    seen_state,         \* per call: the object_state the call saw under the lock
    released,           \* per call: references put, host calls sent and host
                        \* calls that came back with an error, so far
    destroy_calls,      \* number of dxgdevice_destroy calls made
    caller_ref          \* per thread: it holds a reference on the device

devVars == <<dpc, object_state, handle_valid, device_lock_writer,
             device_list_linked, context_list, alloc_list, resource_list,
             hmgr, adapter_kref, device_kref, device_handle, seen_state, released,
             destroy_calls, caller_ref>>

\* one batch allocation create (create_local_allocations) and its rollback
VARIABLES
    cpc,                \* position of the thread inside create_local_allocations
    args,               \* args->alloc_count, args->flags.create_resource
    resource,           \* the struct dxgresource of the batch (exists = non-NULL)
    dxgalloc,           \* dxgalloc[i]: the struct dxgallocation of each entry
    handle_table,       \* process->handle_table: the batch's registered handles
    msg_built,          \* init_message has set msg.hdr and msg.channel
    cret,               \* ret of create_local_allocations
    host_log,           \* host calls sent by the rollback, in order
    assign_failed       \* the registrations hmgrtable_assign_handle refused

allocVars == <<cpc, args, resource, dxgalloc, handle_table, msg_built, cret,
               host_log, assign_failed>>

\* one caller of dxgvmb_send_async_msg
VARIABLES
    async_pc,           \* position of the caller inside dxgvmb_send_async_msg
    try_count,          \* try_count
    async_ret,          \* ret
    async_sends         \* vmbus_sendpacket calls made by the current call

asyncVars == <<async_pc, try_count, async_ret, async_sends>>

\* one device as the owner of its children, and the children
VARIABLES
    dxgdevice,          \* the owning struct dxgdevice: device_kref
    dxgcontext,         \* each struct dxgcontext
    dxgallocation,      \* each struct dxgallocation
    dxgresource         \* each struct dxgresource

childVars == <<dxgdevice, dxgcontext, dxgallocation, dxgresource>>

\* the per-process handle-table lock and the threads on the paths that take it
VARIABLES
    steps,              \* per thread: what is left of the path it is running
    table_lock,         \* process->handle_table lock: the thread holding it, or 0
    rpc_wait            \* the threads blocked inside a synchronous host call

lockVars == <<steps, table_lock, rpc_wait>>

\* one command buffer built by init_message or init_message_res
VARIABLES
    built               \* the call's arguments and the struct dxgvmbusmsg /
                        \* dxgvmbusmsgres it filled in

codecVars == <<built>>

\* one call of dxgvmb_send_sync_msg or dxgvmb_send_async_msg, with its arguments
VARIABLES
    xmit                \* the call's arguments, its position, its return value,
                        \* its tracking node and what it handed to the transport

xmitVars == <<xmit>>

\* one call of dxgvmb_send_create_allocation, up to the host call
VARIABLES
    create              \* the call's arguments, the sizes it computed, its
                        \* position, its return value and whether it sent

createVars == <<create>>

\* one host call whose host status is translated
VARIABLES
    translated          \* the function, what dxgvmb_send_sync_msg returned, the
                        \* host's status and the value the function returns

statusVars == <<translated>>

\* the completions the receive callback could not match
VARIABLES
    stray               \* how many there were, and the host's unanswered
                        \* requests when the last one arrived

strayVars == <<stray>>

\* the struct dxgvmbuschannel objects as dxgvmbuschannel_init and
\* dxgvmbuschannel_destroy see them
VARIABLES
    channels            \* per channel: packet_cache, channel, what init did,
                        \* and how often the pool and the vmbus channel were
                        \* created, destroyed, opened and closed

lifeVars == <<channels>>

\* one shared resource, the resources opened from it and the threads that
\* link and unlink them
VARIABLES
    shared              \* adapter->shared_resource_list_lock, the shared
                        \* resource's sresource_kref, each resource's list
                        \* entry, shared_owner and resource_kref, and what is
                        \* left of each thread's call

sharedVars == <<shared>>

\* one resource with the allocations on its list, their handles and memory
VARIABLES
    owned               \* the resource's flags and handle, each allocation
                        \* (memory, list entry, handle), the handles registered
                        \* in the process's table, and the allocations that
                        \* were on the list when the resource was destroyed

ownedVars == <<owned>>

\* one device's child lists, and the threads stopping and destroying it
VARIABLES
    lists               \* the device's state and list membership, the five
                        \* child lists, the holder of each lock, each thread's
                        \* position and list cursor, and the list accesses made
                        \* so far with the locks held at each

listsVars == <<lists>>

\* dxgdevice_create against the process-adapter bindings of one adapter
VARIABLES
    made                \* adapter->adapter_kref, each process's binding and
                        \* the devices on its list, the device being created,
                        \* the caller's position and what the last call returned

madeVars == <<made>>

\* one call of dxgvmb_send_get_stdalloc_data
VARIABLES
    stdalloc            \* the arguments of the call, what the host reported,
                        \* the value returned, the sizes written back and the
                        \* bytes copied to the caller's buffers

stdallocVars == <<stdalloc>>

\* what the steps of each part leave alone
notChanVars == <<adVars, devVars, allocVars, asyncVars, childVars,
                 lockVars, codecVars, xmitVars, createVars, statusVars,
                 strayVars, lifeVars, sharedVars, ownedVars, listsVars,
                 madeVars, stdallocVars>>
notAdVars == <<chanVars, devVars, allocVars, asyncVars, childVars,
               lockVars, codecVars, xmitVars, createVars, statusVars,
               strayVars, lifeVars, sharedVars, ownedVars, listsVars,
               madeVars, stdallocVars>>
notDevVars == <<chanVars, adVars, allocVars, asyncVars, childVars,
                lockVars, codecVars, xmitVars, createVars, statusVars,
                strayVars, lifeVars, sharedVars, ownedVars, listsVars,
                madeVars, stdallocVars>>
notAllocVars == <<chanVars, adVars, devVars, asyncVars, childVars,
                  lockVars, codecVars, xmitVars, createVars, statusVars,
                  strayVars, lifeVars, sharedVars, ownedVars, listsVars,
                  madeVars, stdallocVars>>
notAsyncVars == <<chanVars, adVars, devVars, allocVars, childVars,
                  lockVars, codecVars, xmitVars, createVars, statusVars,
                  strayVars, lifeVars, sharedVars, ownedVars, listsVars,
                  madeVars, stdallocVars>>
notChildVars == <<chanVars, adVars, devVars, allocVars, asyncVars,
                  lockVars, codecVars, xmitVars, createVars, statusVars,
                  strayVars, lifeVars, sharedVars, ownedVars, listsVars,
                  madeVars, stdallocVars>>
notLockVars == <<chanVars, adVars, devVars, allocVars, asyncVars,
                 childVars, codecVars, xmitVars, createVars, statusVars,
                 strayVars, lifeVars, sharedVars, ownedVars, listsVars,
                 madeVars, stdallocVars>>
notCodecVars == <<chanVars, adVars, devVars, allocVars, asyncVars,
                  childVars, lockVars, xmitVars, createVars, statusVars,
                  strayVars, lifeVars, sharedVars, ownedVars, listsVars,
                  madeVars, stdallocVars>>
notXmitVars == <<chanVars, adVars, devVars, allocVars, asyncVars,
                 childVars, lockVars, codecVars, createVars, statusVars,
                 strayVars, lifeVars, sharedVars, ownedVars, listsVars,
                 madeVars, stdallocVars>>
notCreateVars == <<chanVars, adVars, devVars, allocVars, asyncVars,
                   childVars, lockVars, codecVars, xmitVars, statusVars,
                   strayVars, lifeVars, sharedVars, ownedVars, listsVars,
                   madeVars, stdallocVars>>
notStatusVars == <<chanVars, adVars, devVars, allocVars, asyncVars,
                   childVars, lockVars, codecVars, xmitVars, createVars,
                   strayVars, lifeVars, sharedVars, ownedVars, listsVars,
                   madeVars, stdallocVars>>
notStrayVars == <<chanVars, adVars, devVars, allocVars, asyncVars,
                  childVars, lockVars, codecVars, xmitVars, createVars,
                  statusVars, lifeVars, sharedVars, ownedVars, listsVars,
                  madeVars, stdallocVars>>
notChanStrayVars == <<adVars, devVars, allocVars, asyncVars, childVars,
                      lockVars, codecVars, xmitVars, createVars,
                      statusVars, lifeVars, sharedVars, ownedVars,
                      listsVars, madeVars, stdallocVars>>
notLifeVars == <<chanVars, adVars, devVars, allocVars, asyncVars,
                 childVars, lockVars, codecVars, xmitVars, createVars,
                 statusVars, strayVars, sharedVars, ownedVars, listsVars,
                 madeVars, stdallocVars>>
notSharedVars == <<chanVars, adVars, devVars, allocVars, asyncVars,
                   childVars, lockVars, codecVars, xmitVars, createVars,
                   statusVars, strayVars, lifeVars, ownedVars, listsVars,
                   madeVars, stdallocVars>>
notOwnedVars == <<chanVars, adVars, devVars, allocVars, asyncVars,
                  childVars, lockVars, codecVars, xmitVars, createVars,
                  statusVars, strayVars, lifeVars, sharedVars, listsVars,
                  madeVars, stdallocVars>>
notListsVars == <<chanVars, adVars, devVars, allocVars, asyncVars,
                  childVars, lockVars, codecVars, xmitVars, createVars,
                  statusVars, strayVars, lifeVars, sharedVars, ownedVars,
                  madeVars, stdallocVars>>
notMadeVars == <<chanVars, adVars, devVars, allocVars, asyncVars,
                 childVars, lockVars, codecVars, xmitVars, createVars,
                 statusVars, strayVars, lifeVars, sharedVars, ownedVars,
                 listsVars, stdallocVars>>
notStdallocVars == <<chanVars, adVars, devVars, allocVars, asyncVars,
                     childVars, lockVars, codecVars, xmitVars, createVars,
                     statusVars, strayVars, lifeVars, sharedVars,
                     ownedVars, listsVars, madeVars>>

vars == <<chanVars, adVars, devVars, allocVars, asyncVars, childVars,
          lockVars, codecVars, xmitVars, createVars, statusVars, strayVars,
          lifeVars, sharedVars, ownedVars, listsVars, madeVars,
          stdallocVars>>

(***************************************************************************)
(* Errno values and packet sizes                                           *)
(***************************************************************************)
ENOMEM == 12
ENODEV == 19
EINVAL == 22
EAGAIN == 11
EOVERFLOW == 75

\* dxgvmbus.h: #define DXG_MAX_VM_BUS_PACKET_SIZE (1024 * 128)
DXG_MAX_VM_BUS_PACKET_SIZE == 131072

(***************************************************************************)
(* Bounds of the channel model                                             *)
(***************************************************************************)
\* threads calling dxgvmb_send_sync_msg on the one channel
NumCallers == 2
\* cap on channel->packet_request_id (number of ids ever assigned)
MaxRequests == 2
\* largest result buffer a caller passes (bytes)
MaxResultSize == 1
\* largest completion payload the host sends (bytes)
MaxPayload == 2

Callers == 1..NumCallers

\* command sizes a caller passes: one that fits, one over the packet ceiling
CmdSizes == {8, DXG_MAX_VM_BUS_PACKET_SIZE + 1}
\* result sizes a caller passes
ResultSizes == (0..MaxResultSize) \cup {DXG_MAX_VM_BUS_PACKET_SIZE + 1}
\* what vmbus_sendpacket returns: accepted, or ring full
SendResults == {0, -EAGAIN}

\* struct dxgvmbuspacket, as the pool hands it out (before its fields are set)
NoPacket == [request_id |-> 0, buffer_length |-> 0, status |-> 0, wait |-> 0]

\* a caller's result buffer of n bytes, zeroed
ZeroBuffer(n) == [i \in 1..n |-> 0]

\* the payload of the host's reply to transaction id: len bytes, each
\* carrying the id of the request the host is answering
Payload(id, len) == [i \in 1..len |-> id]


\* a completion descriptor's fields: desc->type, desc->trans_id, hv_pkt_datalen
PacketTypes == {"VM_PKT_COMP", "VM_PKT_DATA_INBAND", "VM_PKT_OTHER"}

InitChan ==
    /\ spc = [t \in Callers |-> "idle"]
    /\ sret = [t \in Callers |-> 0]
    /\ packet = [t \in Callers |-> NoPacket]
    /\ buffer = [t \in Callers |-> << >>]
    /\ packet_request_id = 0
    /\ packet_list = << >>
    /\ packet_cache_used = 0
    /\ host_pending = {}
    /\ host_replied = [id \in {} |-> 0]


(***************************************************************************)
(* dxgvmb_send_sync_msg                                                    *)
(***************************************************************************)
\* list_del(&packet->packet_list_entry)
ListDel(list, t) == SelectSeq(list, LAMBDA x : x # t)

\* Entry (a first call, or the next call of a caller whose previous call has
\* returned): the size checks and the allocation of the tracking node.
\* kmem_cache_alloc may fail (alloc_ok = FALSE).  No more than MaxRequests
\* ids are ever assigned: a call is not started once the ids assigned and
\* the ids about to be assigned reach the cap.
SendSyncCall(t, cmd_size, result_size, alloc_ok) ==
    /\ spc[t] \in {"idle", "ss_ret"}
    /\ packet_request_id + Cardinality({u \in Callers : spc[u] = "ss_id"})
           < MaxRequests
    /\ host_replied' = [id \in DOMAIN host_replied \ {packet[t].request_id}
                            |-> host_replied[id]]
    /\ IF cmd_size > DXG_MAX_VM_BUS_PACKET_SIZE
          \/ result_size > DXG_MAX_VM_BUS_PACKET_SIZE
       THEN /\ sret' = [sret EXCEPT ![t] = -EINVAL]
            /\ spc' = [spc EXCEPT ![t] = "ss_ret"]
            /\ buffer' = [buffer EXCEPT ![t] = << >>]
            /\ packet' = [packet EXCEPT ![t] = NoPacket]
            /\ UNCHANGED packet_cache_used
       ELSE IF ~alloc_ok
       THEN /\ sret' = [sret EXCEPT ![t] = -ENOMEM]
            /\ spc' = [spc EXCEPT ![t] = "ss_ret"]
            /\ buffer' = [buffer EXCEPT ![t] = << >>]
            /\ packet' = [packet EXCEPT ![t] = NoPacket]
            /\ UNCHANGED packet_cache_used
       ELSE /\ packet_cache_used' = packet_cache_used + 1
            /\ packet' = [packet EXCEPT ![t] =
                             [NoPacket EXCEPT !.buffer_length = result_size]]
            /\ buffer' = [buffer EXCEPT ![t] = ZeroBuffer(result_size)]
            /\ sret' = [sret EXCEPT ![t] = 0]
            /\ spc' = [spc EXCEPT ![t] = "ss_id"]
    /\ UNCHANGED <<packet_request_id, packet_list, host_pending>>
    /\ UNCHANGED notChanVars

\* a variant that reads the counter without advancing it
SendSyncAssignIdNoInc(t) ==
    /\ spc[t] = "ss_id"
    /\ packet' = [packet EXCEPT ![t].request_id = packet_request_id + 1,
                                ![t].status = 0,
                                ![t].wait = 0]
    /\ spc' = [spc EXCEPT ![t] = "ss_add"]
    /\ UNCHANGED <<sret, buffer, packet_list, packet_cache_used,
                   packet_request_id, host_pending, host_replied>>
    /\ UNCHANGED notChanVars

\* packet->request_id = atomic64_inc_return(&channel->packet_request_id);
\* init_completion; buffer, buffer_length and status are set.
SendSyncAssignId(t) ==
    /\ spc[t] = "ss_id"
    /\ packet_request_id' = packet_request_id + 1
    /\ packet' = [packet EXCEPT ![t].request_id = packet_request_id + 1,
                                ![t].status = 0,
                                ![t].wait = 0]
    /\ spc' = [spc EXCEPT ![t] = "ss_add"]
    /\ UNCHANGED <<sret, buffer, packet_list, packet_cache_used,
                   host_pending, host_replied>>
    /\ UNCHANGED notChanVars

\* list_add_tail under packet_list_mutex
SendSyncListAdd(t) ==
    /\ spc[t] = "ss_add"
    /\ packet_list' = Append(packet_list, t)
    /\ spc' = [spc EXCEPT ![t] = "ss_send"]
    /\ UNCHANGED <<sret, packet, buffer, packet_request_id, packet_cache_used,
                   host_pending, host_replied>>
    /\ UNCHANGED notChanVars

\* a variant that leaves the node on the pending list when the send fails
SendSyncSendNoDel(t, r) ==
    /\ spc[t] = "ss_send"
    /\ sret' = [sret EXCEPT ![t] = r]
    /\ IF r = 0
       THEN /\ host_pending' = host_pending \cup {packet[t].request_id}
            /\ spc' = [spc EXCEPT ![t] = "ss_wait"]
            /\ UNCHANGED <<packet_list, packet_cache_used>>
       ELSE /\ packet_cache_used' = packet_cache_used - 1
            /\ spc' = [spc EXCEPT ![t] = "ss_ret"]
            /\ UNCHANGED <<host_pending, packet_list>>
    /\ UNCHANGED <<packet, buffer, packet_request_id, host_replied>>
    /\ UNCHANGED notChanVars

\* ret = vmbus_sendpacket(..., packet->request_id, ..., COMPLETION_REQUESTED)
\* On failure: list_del under packet_list_mutex, goto cleanup (the node goes
\* back to the pool) and the error is returned without waiting.
SendSyncSend(t, r) ==
    /\ spc[t] = "ss_send"
    /\ sret' = [sret EXCEPT ![t] = r]
    /\ IF r = 0
       THEN /\ host_pending' = host_pending \cup {packet[t].request_id}
            /\ spc' = [spc EXCEPT ![t] = "ss_wait"]
            /\ UNCHANGED <<packet_list, packet_cache_used>>
       ELSE /\ packet_list' = ListDel(packet_list, t)
            /\ packet_cache_used' = packet_cache_used - 1
            /\ spc' = [spc EXCEPT ![t] = "ss_ret"]
            /\ UNCHANGED host_pending
    /\ UNCHANGED <<packet, buffer, packet_request_id, host_replied>>
    /\ UNCHANGED notChanVars

\* wait_for_completion(&packet->wait); ret = packet->status;
\* cleanup: kmem_cache_free(channel->packet_cache, packet); return ret
SendSyncWait(t) ==
    /\ spc[t] = "ss_wait"
    /\ packet[t].wait > 0
    /\ packet' = [packet EXCEPT ![t].wait = @ - 1]
    /\ sret' = [sret EXCEPT ![t] = packet[t].status]
    /\ packet_cache_used' = packet_cache_used - 1
    /\ spc' = [spc EXCEPT ![t] = "ss_ret"]
    /\ UNCHANGED <<buffer, packet_request_id, packet_list,
                   host_pending, host_replied>>
    /\ UNCHANGED notChanVars

(***************************************************************************)
(* The receive path                                                        *)
(***************************************************************************)
\* list_for_each_entry(entry, &channel->packet_list_head, ...)
\*     if (desc->trans_id == entry->request_id) { packet = entry; break; }
\* The caller owning the first matching node, or 0 when none matches.
FindPacketByHead(list, pk, trans_id) ==
    IF Len(list) = 0 THEN 0 ELSE list[1]

FindPacket(list, pk, trans_id) ==
    LET hits == {i \in 1..Len(list) : pk[list[i]].request_id = trans_id}
    IN  IF hits = {} THEN 0
        ELSE list[CHOOSE i \in hits : \A j \in hits : i <= j]

\* if (packet_length < packet->buffer_length) packet->status = -EOVERFLOW
SizeMismatchAny(packet_length, buffer_length) ==
    packet_length # buffer_length

SizeMismatch(packet_length, buffer_length) ==
    packet_length < buffer_length

\* a variant that copies the whole arriving payload, whatever the size of the
\* result buffer
MemcpyWholePayload(data, n) == data

\* memcpy(packet->buffer, hv_pkt_data(desc), packet->buffer_length)
Memcpy(data, n) == [i \in 1..n |-> data[i]]

\* a variant that returns without complete() when the payload is shorter
\* than the result buffer
process_completion_packet_no_complete(desc) ==
    LET t == FindPacket(packet_list, packet, desc.trans_id) IN
    IF t # 0
    THEN /\ packet_list' = ListDel(packet_list, t)
         /\ IF packet[t].buffer_length # 0
            THEN IF SizeMismatch(desc.len, packet[t].buffer_length)
                 THEN /\ packet' = [packet EXCEPT ![t].status = -EOVERFLOW]
                      /\ UNCHANGED buffer
                 ELSE /\ buffer' = [buffer EXCEPT ![t] =
                              Memcpy(Payload(desc.trans_id, desc.len),
                                     packet[t].buffer_length)]
                      /\ packet' = [packet EXCEPT ![t].wait = @ + 1]
            ELSE /\ packet' = [packet EXCEPT ![t].wait = @ + 1]
                 /\ UNCHANGED buffer
    ELSE UNCHANGED <<packet_list, packet, buffer>>

\* a variant that completes the request at the head of the pending list
\* when no request matches
process_completion_packet_wake_head(desc) ==
    LET t == FindPacket(packet_list, packet, desc.trans_id) IN
    IF t # 0
    THEN /\ packet_list' = ListDel(packet_list, t)
         /\ IF packet[t].buffer_length # 0
            THEN IF SizeMismatch(desc.len, packet[t].buffer_length)
                 THEN /\ packet' = [packet EXCEPT ![t].status = -EOVERFLOW,
                                                  ![t].wait = @ + 1]
                      /\ UNCHANGED buffer
                 ELSE /\ buffer' = [buffer EXCEPT ![t] =
                              Memcpy(Payload(desc.trans_id, desc.len),
                                     packet[t].buffer_length)]
                      /\ packet' = [packet EXCEPT ![t].wait = @ + 1]
            ELSE /\ packet' = [packet EXCEPT ![t].wait = @ + 1]
                 /\ UNCHANGED buffer
    ELSE IF Len(packet_list) > 0
    THEN /\ packet' = [packet EXCEPT ![packet_list[1]].wait = @ + 1]
         /\ packet_list' = Tail(packet_list)
         /\ UNCHANGED buffer
    ELSE UNCHANGED <<packet_list, packet, buffer>>

process_completion_packet(desc) ==
    LET t == FindPacket(packet_list, packet, desc.trans_id) IN
    IF t # 0
    THEN /\ packet_list' = ListDel(packet_list, t)
         /\ IF packet[t].buffer_length # 0
            THEN IF SizeMismatch(desc.len, packet[t].buffer_length)
                 THEN /\ packet' = [packet EXCEPT ![t].status = -EOVERFLOW,
                                                  ![t].wait = @ + 1]
                      /\ UNCHANGED buffer
                 ELSE /\ buffer' = [buffer EXCEPT ![t] =
                              Memcpy(Payload(desc.trans_id, desc.len),
                                     packet[t].buffer_length)]
                      /\ packet' = [packet EXCEPT ![t].wait = @ + 1]
            ELSE /\ packet' = [packet EXCEPT ![t].wait = @ + 1]
                 /\ UNCHANGED buffer
    ELSE \* pr_err("did not find packet to complete")
         UNCHANGED <<packet_list, packet, buffer>>

\* process_inband_packet: placeholder for the global channel, an error
\* message for an adapter channel; no state is touched
process_inband_packet(desc) ==
    UNCHANGED <<packet_list, packet, buffer>>

\* one iteration of foreach_vmbus_pkt in dxgvmbuschannel_receive
dxgvmbuschannel_receive(desc) ==
    IF desc.type = "VM_PKT_COMP"
    THEN process_completion_packet(desc)
    ELSE process_inband_packet(desc)

\* transaction ids carried by some node of the pending list
PendingIds == {packet[packet_list[i]].request_id : i \in 1..Len(packet_list)}

\* The host answers a request the transport accepted, in any order and with
\* any payload length.
HostCompletion(id, len) ==
    /\ id \in host_pending
    /\ host_pending' = host_pending \ {id}
    /\ host_replied' = host_replied @@ (id :> len)
    /\ dxgvmbuschannel_receive(
           [type |-> "VM_PKT_COMP", trans_id |-> id, len |-> len])
    /\ UNCHANGED <<spc, sret, packet_request_id, packet_cache_used>>
    /\ UNCHANGED notChanVars

\* The host sends a completion whose transaction id matches no pending
\* request (a stray or repeated completion).
HostStrayCompletion(id, len) ==
    /\ id \notin PendingIds
    /\ dxgvmbuschannel_receive(
           [type |-> "VM_PKT_COMP", trans_id |-> id, len |-> len])
    /\ UNCHANGED <<spc, sret, packet_request_id, packet_cache_used,
                   host_pending, host_replied>>
    /\ UNCHANGED notChanVars

\* The host sends a packet that is not a completion.
HostOtherPacket(type, id, len) ==
    /\ type # "VM_PKT_COMP"
    /\ dxgvmbuschannel_receive([type |-> type, trans_id |-> id, len |-> len])
    /\ UNCHANGED <<spc, sret, packet_request_id, packet_cache_used,
                   host_pending, host_replied>>
    /\ UNCHANGED notChanVars

NextChan ==
    \/ \E t \in Callers, c \in CmdSizes, r \in ResultSizes, ok \in BOOLEAN :
           SendSyncCall(t, c, r, ok)
    \/ \E t \in Callers : SendSyncAssignId(t)
    \/ \E t \in Callers : SendSyncListAdd(t)
    \/ \E t \in Callers, r \in SendResults : SendSyncSend(t, r)
    \/ \E t \in Callers : SendSyncWait(t)
    \/ \E id \in 1..MaxRequests, len \in 0..MaxPayload : HostCompletion(id, len)
    \/ \E id \in 0..MaxRequests : HostStrayCompletion(id, MaxPayload)
    \/ \E type \in PacketTypes : HostOtherPacket(type, 0, MaxPayload)


(***************************************************************************)
(* Claims about the channel (checked under SpecChan)                       *)
(***************************************************************************)
\* the caller's request has been answered by the host
Answered(t) == packet[t].request_id \in DOMAIN host_replied

\* C1: for concurrently outstanding send_sync calls and any arrival order of
\* the completions, a caller is woken only by the completion carrying its own
\* request id, every such completion wakes it, and the only bytes ever copied
\* into a caller's buffer are those of the reply to its own request.
C1_CompletionMatchesCaller ==
    \A t \in Callers :
        /\ \A i \in DOMAIN buffer[t] :
               buffer[t][i] \in {0, packet[t].request_id}
        /\ spc[t] \in {"ss_id", "ss_add", "ss_send"} =>
               /\ packet[t].wait = 0
               /\ buffer[t] = ZeroBuffer(packet[t].buffer_length)
        /\ spc[t] = "ss_wait" =>
               /\ (packet[t].wait > 0) <=>
                      (packet[t].request_id \notin host_pending)
               /\ packet[t].wait <= 1
               /\ (packet[t].wait = 0) =>
                      buffer[t] = ZeroBuffer(packet[t].buffer_length)

\* Two calls are outstanding and the later request is answered first: its
\* caller has returned with its own reply while the earlier request is still
\* at the head of the pending list, not woken.
C1_Witness ==
    \E t, u \in Callers :
        /\ spc[t] = "ss_ret" /\ sret[t] = 0 /\ Answered(t)
        /\ packet[t].buffer_length > 0
        /\ buffer[t] = Payload(packet[t].request_id, packet[t].buffer_length)
        /\ spc[u] = "ss_wait" /\ packet[u].wait = 0
        /\ packet[u].request_id < packet[t].request_id
        /\ Len(packet_list) > 0 /\ packet_list[1] = u

NodeHoldersOfChannel ==
    {t \in Callers : spc[t] \in {"ss_id", "ss_add", "ss_send", "ss_wait"}}

\* C29: the receive path never writes more than the waiting request's
\* expected result size into its result buffer.  While a caller holds a
\* tracking node its buffer keeps the expected size; once its request is
\* answered and it has not yet woken, a payload at least as long as the
\* expected size has left exactly that many bytes of the reply in the buffer
\* with the status untouched, a shorter payload has left the buffer as it was
\* and the status at -EOVERFLOW, and in both cases the waiter is signalled.
C29_ReceiveNeverOverruns ==
    \A t \in NodeHoldersOfChannel :
        /\ Len(buffer[t]) = packet[t].buffer_length
        /\ (spc[t] = "ss_wait" /\ Answered(t)) =>
               LET n == packet[t].buffer_length
                   len == host_replied[packet[t].request_id]
               IN  /\ packet[t].wait = 1
                   /\ len >= n =>
                          /\ buffer[t] = Payload(packet[t].request_id, n)
                          /\ packet[t].status = 0
                   /\ len < n =>
                          /\ buffer[t] = ZeroBuffer(n)
                          /\ packet[t].status = -EOVERFLOW

\* Two answered requests whose callers have not woken yet: one got a payload
\* longer than its buffer and holds exactly buffer_length bytes of it, the
\* other got a payload shorter than its buffer, which is untouched, and its
\* status is -EOVERFLOW; both are signalled.
C29_Witness ==
    \E t, u \in Callers :
        /\ spc[t] = "ss_wait" /\ Answered(t) /\ packet[t].wait = 1
        /\ packet[t].buffer_length > 0
        /\ host_replied[packet[t].request_id] > packet[t].buffer_length
        /\ buffer[t] = Payload(packet[t].request_id, packet[t].buffer_length)
        /\ spc[u] = "ss_wait" /\ Answered(u) /\ packet[u].wait = 1
        /\ host_replied[packet[u].request_id] < packet[u].buffer_length
        /\ buffer[u] = ZeroBuffer(packet[u].buffer_length)
        /\ packet[u].status = -EOVERFLOW

\* C33: every dxgvmb_send_sync_msg call eventually returns.  A call that has
\* taken its tracking node either fails in the send and returns at once, or
\* is woken by the completion carrying its request id, provided the threads
\* keep running and the host answers every request the transport accepted
\* (FairnessChan).  complete() counts, so a completion that arrives before
\* wait_for_completion is called is still there when the caller waits.
C33_SendSyncEventuallyReturns ==
    \A t \in Callers :
        (spc[t] \in {"ss_id", "ss_add", "ss_send", "ss_wait"})
            ~> (spc[t] = "ss_ret")

\* one caller's completion has arrived and is held for it while it has not
\* yet been woken; another caller's send was refused and it has returned
C33_Witness ==
    \E t, u \in Callers :
        /\ t # u
        /\ spc[t] = "ss_wait" /\ packet[t].wait = 1 /\ packet_list = << >>
        /\ spc[u] = "ss_ret" /\ sret[u] = -EAGAIN

\* every node on the pending list belongs to a caller between list_add_tail
\* and its return
OnPendingListOfIdHolders ==
    \A i \in 1..Len(packet_list) : spc[packet_list[i]] \in {"ss_send", "ss_wait"}

\* the callers whose node carries an assigned request id
IdHolders == {t \in Callers : spc[t] \in {"ss_add", "ss_send", "ss_wait"}}

\* C34: request ids of one channel are strictly increasing in assignment
\* order and pairwise distinct.  Each assignment hands out an id larger than
\* the counter was (so larger than every id assigned before it) and no
\* other step moves the counter; the ids held by callers, and so the ids of
\* the nodes on the pending list, are pairwise distinct and lie between 1
\* (the counter starts at 0) and the counter.  Ids stay below 2^64.
C34_RequestIdsIncreaseAndDiffer ==
    /\ [](/\ \A t \in IdHolders : packet[t].request_id \in 1..packet_request_id
          /\ \A t, u \in IdHolders :
                 t # u => packet[t].request_id # packet[u].request_id
          /\ \A i, j \in 1..Len(packet_list) :
                 i # j => packet[packet_list[i]].request_id
                              # packet[packet_list[j]].request_id
          /\ OnPendingListOfIdHolders)
    /\ [][/\ packet_request_id' >= packet_request_id
          /\ \A t \in Callers :
                 (spc[t] = "ss_id" /\ spc'[t] = "ss_add") =>
                     /\ packet_request_id' = packet_request_id + 1
                     /\ packet'[t].request_id = packet_request_id'
                     /\ \A u \in IdHolders :
                            packet[u].request_id < packet'[t].request_id
          /\ (\A t \in Callers : ~(spc[t] = "ss_id" /\ spc'[t] = "ss_add"))
                 => packet_request_id' = packet_request_id]_vars

\* two requests are pending at once; the one queued first was assigned its
\* id second
C34_Witness ==
    /\ Len(packet_list) = 2
    /\ packet[packet_list[1]].request_id = 2
    /\ packet[packet_list[2]].request_id = 1

\* the callers whose tracking node is on the pending list
OnPendingList == {packet_list[i] : i \in 1..Len(packet_list)}

\* the callers that hold a tracking node taken from the pool
NodeHolders ==
    {t \in Callers : spc[t] \in {"ss_id", "ss_add", "ss_send", "ss_wait"}}

\* C15: when the transport refuses the send, the node is taken off the
\* pending list and the call returns the transport's error without waiting
\* (nothing was handed to the host, no completion was consumed).  On every
\* exit path the node has gone back to the pool exactly once and is not on
\* the pending list when the call returns: the pool's count of nodes in use
\* is the number of calls in progress, and only calls that are sending or
\* waiting are on the list, each once.
C15_NodeReleasedOnEveryExit ==
    /\ packet_cache_used = Cardinality(NodeHolders)
    /\ Cardinality(OnPendingList) = Len(packet_list)
    /\ \A t \in OnPendingList : spc[t] \in {"ss_send", "ss_wait"}
    /\ \A t \in Callers :
           (spc[t] = "ss_ret" /\ sret[t] = -EAGAIN) =>
               /\ packet[t].request_id \notin host_pending
               /\ ~Answered(t)
               /\ packet[t].wait = 0

\* a call whose send the transport refused has returned the error, and a
\* call that completed with an error status has returned too; no node is in
\* use and the pending list is empty
C15_Witness ==
    \E t, u \in Callers :
        /\ spc[t] = "ss_ret" /\ sret[t] = -EAGAIN /\ packet[t].request_id > 0
        /\ spc[u] = "ss_ret" /\ sret[u] = -EOVERFLOW
        /\ packet_cache_used = 0
        /\ packet_list = << >>

(***************************************************************************)
(* dxgvmb_send_async_msg                                                   *)
(***************************************************************************)
\* } while (ret == -EAGAIN && try_count < 5000);
MaxTryCount == 5000

\* what vmbus_sendpacket returns to dxgvmb_send_async_msg: accepted, ring
\* full, or another error
AsyncSendResults == {0, -EAGAIN, -ENODEV}

InitAsync ==
    /\ async_pc = "idle"
    /\ try_count = 0
    /\ async_ret = 0
    /\ async_sends = 0

\* Entry: the size check and the test that the channel is the global one
\* (channel->adapter == NULL); then try_count = 0 and the loop is entered.
AsyncCall(cmd_size, global) ==
    /\ async_pc \in {"idle", "as_ret"}
    /\ try_count' = 0
    /\ async_sends' = 0
    /\ IF cmd_size > DXG_MAX_VM_BUS_PACKET_SIZE \/ ~global
       THEN /\ async_ret' = -EINVAL
            /\ async_pc' = "as_ret"
       ELSE /\ async_ret' = 0
            /\ async_pc' = "as_send"
    /\ UNCHANGED notAsyncVars

\* a variant whose loop makes one attempt too many
AsyncSendOneMore(r) ==
    /\ async_pc = "as_send"
    /\ async_sends' = async_sends + 1
    /\ async_ret' = r
    /\ try_count' = IF r = -EAGAIN THEN try_count + 1 ELSE try_count
    /\ async_pc' = IF r = -EAGAIN /\ try_count' <= MaxTryCount
                   THEN "as_send" ELSE "as_ret"
    /\ UNCHANGED notAsyncVars

\* One iteration of the loop: ret = vmbus_sendpacket(...); if ret is
\* -EAGAIN, usleep_range(1000, 2000) and try_count++; the loop goes on while
\* ret == -EAGAIN && try_count < 5000, and ret is returned after it.
AsyncSend(r) ==
    /\ async_pc = "as_send"
    /\ async_sends' = async_sends + 1
    /\ async_ret' = r
    /\ try_count' = IF r = -EAGAIN THEN try_count + 1 ELSE try_count
    /\ async_pc' = IF r = -EAGAIN /\ try_count' < MaxTryCount
                   THEN "as_send" ELSE "as_ret"
    /\ UNCHANGED notAsyncVars

NextAsync ==
    \/ \E c \in CmdSizes, global \in BOOLEAN : AsyncCall(c, global)
    \/ \E r \in AsyncSendResults : AsyncSend(r)

\* C16 (the counts): inside the loop every attempt so far was refused with
\* ring-full and fewer than 5000 were made; the call returns ring-full
\* exactly when it has made 5000 attempts, all refused; an attempt that
\* returns anything else is the last one.
C16_AttemptsBounded ==
    /\ async_pc = "as_send" =>
           (async_sends = try_count /\ try_count < MaxTryCount)
    /\ (async_pc = "as_ret" /\ async_sends > 0) =>
           IF async_ret = -EAGAIN
           THEN async_sends = MaxTryCount /\ try_count = MaxTryCount
           ELSE async_sends = try_count + 1 /\ async_sends <= MaxTryCount

\* C16: dxgvmb_send_async_msg on the global channel, with every attempt
\* refused with -EAGAIN, makes exactly 5000 attempts and returns -EAGAIN; it
\* stops at the first attempt that returns anything else; and it always
\* returns.
C16_AsyncRetriesBounded ==
    /\ []C16_AttemptsBounded
    /\ (async_pc = "as_send") ~> (async_pc = "as_ret")

\* the call has returned -EAGAIN after 5000 refused attempts
C16_Witness ==
    /\ async_pc = "as_ret"
    /\ async_ret = -EAGAIN
    /\ async_sends = MaxTryCount

(***************************************************************************)
(* The adapter: lifecycle state, core lock, start and stop                 *)
(***************************************************************************)
\* threads operating on the one adapter
NumAdapterThreads == 2

AdapterThreads == 1..NumAdapterThreads


\* positions at which a thread is between two operations
AdapterResting == {"idle", "st_done", "st_failed", "sp_done", "sp_noop",
                   "ax_fail", "as_fail", "lk_released"}

\* The adapter after dxgadapter_create: not started, nothing opened.
InitAdapter ==
    /\ apc = [t \in AdapterThreads |-> "idle"]
    /\ aret = [t \in AdapterThreads |-> 0]
    /\ adapter_state = "CREATED"
    /\ core_lock_writer = 0
    /\ core_lock_readers = {}
    /\ stopping_adapter = FALSE
    /\ ch_packet_cache = FALSE
    /\ ch_channel = FALSE
    /\ global_channel_initialized = FALSE
    /\ stop_calls = [stop_devices |-> 0, close_adapter |-> 0,
                     channel_destroy |-> 0, vmbus_close |-> 0]
    /\ global_channel = [open |-> FALSE, inits |-> 0]

dxgadapter_is_active == adapter_state = "ACTIVE"

\* down_write(&adapter->core_lock) can return
CanDownWrite == core_lock_writer = 0 /\ core_lock_readers = {}
\* threads queued in down_write(&adapter->core_lock)
WriterWaiting == \E t \in AdapterThreads : apc[t] \in {"sp_flag", "sp_lock", "ax_lock"}

\* down_read(&adapter->core_lock) can return: the rwsem is not write-held
\* and no writer is queued (a queued writer is handed the lock ahead of
\* readers that arrive after it)
CanDownRead == core_lock_writer = 0 /\ ~WriterWaiting

(***************************************************************************)
(* dxgadapter_acquire_lock_exclusive / _shared and their release           *)
(***************************************************************************)
\* down_write(&adapter->core_lock)
ExclusiveLock(t, from, to) ==
    /\ apc[t] = from
    /\ CanDownWrite
    /\ core_lock_writer' = t
    /\ apc' = [apc EXCEPT ![t] = to]
    /\ UNCHANGED <<aret, adapter_state, core_lock_readers, stopping_adapter,
                   ch_packet_cache, ch_channel, global_channel_initialized,
                   stop_calls,
                   global_channel>>
    /\ UNCHANGED notAdVars

\* a variant that returns -ENODEV with the lock still held
ExclusiveCheckKeepsLock(t, from, okpc, failpc) ==
    /\ apc[t] = from
    /\ IF adapter_state # "ACTIVE"
       THEN /\ aret' = [aret EXCEPT ![t] = -ENODEV]
            /\ apc' = [apc EXCEPT ![t] = failpc]
       ELSE /\ aret' = [aret EXCEPT ![t] = 0]
            /\ apc' = [apc EXCEPT ![t] = okpc]
    /\ UNCHANGED <<core_lock_writer, adapter_state, core_lock_readers,
                   stopping_adapter, ch_packet_cache, ch_channel,
                   global_channel_initialized, stop_calls,
                   global_channel>>
    /\ UNCHANGED notAdVars

\* if (adapter->adapter_state != DXGADAPTER_STATE_ACTIVE) {
\*     dxgadapter_release_lock_exclusive(adapter); return -ENODEV; }
\* return 0;
ExclusiveCheck(t, from, okpc, failpc) ==
    /\ apc[t] = from
    /\ IF adapter_state # "ACTIVE"
       THEN /\ core_lock_writer' = 0
            /\ aret' = [aret EXCEPT ![t] = -ENODEV]
            /\ apc' = [apc EXCEPT ![t] = failpc]
       ELSE /\ aret' = [aret EXCEPT ![t] = 0]
            /\ apc' = [apc EXCEPT ![t] = okpc]
            /\ UNCHANGED core_lock_writer
    /\ UNCHANGED <<adapter_state, core_lock_readers, stopping_adapter,
                   ch_packet_cache, ch_channel, global_channel_initialized,
                   stop_calls,
                   global_channel>>
    /\ UNCHANGED notAdVars

\* dxgadapter_release_lock_exclusive: up_write(&adapter->core_lock)
ExclusiveRelease(t, from, to) ==
    /\ apc[t] = from
    /\ core_lock_writer' = 0
    /\ apc' = [apc EXCEPT ![t] = to]
    /\ UNCHANGED <<aret, adapter_state, core_lock_readers, stopping_adapter,
                   ch_packet_cache, ch_channel, global_channel_initialized,
                   stop_calls,
                   global_channel>>
    /\ UNCHANGED notAdVars

\* down_read(&adapter->core_lock)
SharedLock(t, from, to) ==
    /\ apc[t] = from
    /\ CanDownRead
    /\ core_lock_readers' = core_lock_readers \cup {t}
    /\ apc' = [apc EXCEPT ![t] = to]
    /\ UNCHANGED <<aret, adapter_state, core_lock_writer, stopping_adapter,
                   ch_packet_cache, ch_channel, global_channel_initialized,
                   stop_calls,
                   global_channel>>
    /\ UNCHANGED notAdVars

\* if (adapter->adapter_state == DXGADAPTER_STATE_ACTIVE) return 0;
\* dxgadapter_release_lock_shared(adapter); return -ENODEV;
SharedCheck(t, from, okpc, failpc) ==
    /\ apc[t] = from
    /\ IF adapter_state = "ACTIVE"
       THEN /\ aret' = [aret EXCEPT ![t] = 0]
            /\ apc' = [apc EXCEPT ![t] = okpc]
            /\ UNCHANGED core_lock_readers
       ELSE /\ core_lock_readers' = core_lock_readers \ {t}
            /\ aret' = [aret EXCEPT ![t] = -ENODEV]
            /\ apc' = [apc EXCEPT ![t] = failpc]
    /\ UNCHANGED <<adapter_state, core_lock_writer, stopping_adapter,
                   ch_packet_cache, ch_channel, global_channel_initialized,
                   stop_calls,
                   global_channel>>
    /\ UNCHANGED notAdVars

\* dxgadapter_release_lock_shared: up_read(&adapter->core_lock)
SharedRelease(t, from, to) ==
    /\ apc[t] = from
    /\ core_lock_readers' = core_lock_readers \ {t}
    /\ apc' = [apc EXCEPT ![t] = to]
    /\ UNCHANGED <<aret, adapter_state, core_lock_writer, stopping_adapter,
                   ch_packet_cache, ch_channel, global_channel_initialized,
                   stop_calls,
                   global_channel>>
    /\ UNCHANGED notAdVars

\* positions inside dxgadapter_start
StartBody == {"st_find", "st_ginit", "st_vmbus", "st_open", "st_info"}

\* A thread starts one of the operations.  dxgadapter_start is called for an
\* adapter that has not been started yet, one call at a time (its caller
\* walks the adapter list under the list lock); the other operations are
\* called at any time.
AdapterCall(t, op) ==
    /\ apc[t] \in AdapterResting
    /\ op = "st_find" =>
           /\ adapter_state = "CREATED"
           /\ \A u \in AdapterThreads : apc[u] \notin StartBody
    /\ apc' = [apc EXCEPT ![t] = op]
    /\ aret' = [aret EXCEPT ![t] = 0]
    /\ UNCHANGED <<adapter_state, core_lock_writer, core_lock_readers,
                   stopping_adapter, ch_packet_cache, ch_channel,
                   global_channel_initialized, stop_calls,
                   global_channel>>
    /\ UNCHANGED notAdVars

\* dxgadapter_start is called whatever the adapter's state (the function
\* itself tests none), one call at a time
StartCall(t) ==
    /\ apc[t] \in AdapterResting
    /\ \A u \in AdapterThreads : apc[u] \notin StartBody
    /\ apc' = [apc EXCEPT ![t] = "st_find"]
    /\ aret' = [aret EXCEPT ![t] = 0]
    /\ UNCHANGED <<adapter_state, core_lock_writer, core_lock_readers,
                   stopping_adapter, ch_packet_cache, ch_channel,
                   global_channel_initialized, stop_calls, global_channel>>
    /\ UNCHANGED notAdVars

\* the operations a thread can start: the position of their first step
AdapterOps == {"st_find", "sp_flag", "ax_lock", "as_lock"}

(***************************************************************************)
(* dxgadapter_start                                                        *)
(***************************************************************************)
\* a variant that initialises the global channel whatever the flag says
StartFindChannelNoFlag(t, found) ==
    /\ apc[t] = "st_find"
    /\ apc' = [apc EXCEPT ![t] = IF ~found THEN "st_failed" ELSE "st_ginit"]
    /\ UNCHANGED <<aret, adapter_state, core_lock_writer, core_lock_readers,
                   stopping_adapter, ch_packet_cache, ch_channel,
                   global_channel_initialized, stop_calls, global_channel>>
    /\ UNCHANGED notAdVars

\* Find the vGPU channel whose luid matches; without one, return.  Then the
\* test of dxgglobal->global_channel_initialized.
StartFindChannel(t, found) ==
    /\ apc[t] = "st_find"
    /\ apc' = [apc EXCEPT ![t] =
                  IF ~found THEN "st_failed"
                  ELSE IF ~global_channel_initialized THEN "st_ginit"
                  ELSE "st_vmbus"]
    /\ UNCHANGED <<aret, adapter_state, core_lock_writer, core_lock_readers,
                   stopping_adapter, ch_packet_cache, ch_channel,
                   global_channel_initialized, stop_calls,
                   global_channel>>
    /\ UNCHANGED notAdVars

\* ret = dxgglobal_init_global_channel(); on failure
\* dxgglobal_destroy_global_channel() and return, else the flag is set
StartGlobalInit(t, ok) ==
    /\ apc[t] = "st_ginit"
    /\ IF ok
       THEN /\ global_channel' = [global_channel EXCEPT !.open = TRUE,
                                                        !.inits = @ + 1]
            /\ global_channel_initialized' = TRUE
            /\ apc' = [apc EXCEPT ![t] = "st_vmbus"]
       ELSE /\ global_channel' = [global_channel EXCEPT !.open = FALSE]
            /\ UNCHANGED global_channel_initialized
            /\ apc' = [apc EXCEPT ![t] = "st_failed"]
    /\ UNCHANGED <<aret, adapter_state, core_lock_writer, core_lock_readers,
                   stopping_adapter, ch_packet_cache, ch_channel, stop_calls>>
    /\ UNCHANGED notAdVars

\* what dxgvmbuschannel_init can do: succeed, fail to create the packet
\* cache, or have vmbus_open fail
ChannelInitResults == {"ok", "nocache", "openfail"}

\* dxgadapter_set_vmbus: dxgvmbuschannel_init(&adapter->channel, hdev).
\* A failure makes dxgadapter_start set STOPPED and return.
StartChannelInit(t, r) ==
    /\ apc[t] = "st_vmbus"
    /\ ch_packet_cache' = (r # "nocache")
    /\ ch_channel' = IF r = "ok" THEN TRUE ELSE ch_channel
    /\ IF r = "ok"
       THEN /\ apc' = [apc EXCEPT ![t] = "st_open"]
            /\ UNCHANGED adapter_state
       ELSE /\ adapter_state' = "STOPPED"
            /\ apc' = [apc EXCEPT ![t] = "st_failed"]
    /\ UNCHANGED <<aret, core_lock_writer, core_lock_readers,
                   stopping_adapter, global_channel_initialized, stop_calls,
                   global_channel>>
    /\ UNCHANGED notAdVars

\* dxgadapter_set_vmbus: ret = dxgvmb_send_open_adapter(adapter)
StartOpenAdapter(t, ok) ==
    /\ apc[t] = "st_open"
    /\ IF ok
       THEN /\ apc' = [apc EXCEPT ![t] = "st_info"]
            /\ UNCHANGED adapter_state
       ELSE /\ adapter_state' = "STOPPED"
            /\ apc' = [apc EXCEPT ![t] = "st_failed"]
    /\ UNCHANGED <<aret, core_lock_writer, core_lock_readers,
                   stopping_adapter, ch_packet_cache, ch_channel,
                   global_channel_initialized, stop_calls,
                   global_channel>>
    /\ UNCHANGED notAdVars

\* dxgadapter_set_vmbus: ret = dxgvmb_send_get_internal_adapter_info(adapter);
\* then dxgadapter_start sets STOPPED (ret != 0) or ACTIVE
StartInternalInfo(t, ok) ==
    /\ apc[t] = "st_info"
    /\ adapter_state' = IF ok THEN "ACTIVE" ELSE "STOPPED"
    /\ apc' = [apc EXCEPT ![t] = IF ok THEN "st_done" ELSE "st_failed"]
    /\ UNCHANGED <<aret, core_lock_writer, core_lock_readers,
                   stopping_adapter, ch_packet_cache, ch_channel,
                   global_channel_initialized, stop_calls,
                   global_channel>>
    /\ UNCHANGED notAdVars

(***************************************************************************)
(* dxgadapter_stop                                                         *)
(***************************************************************************)
\* a variant that does not look at the flag
StopFlagIgnored(t) ==
    /\ apc[t] = "sp_flag"
    /\ CanDownWrite
    /\ stopping_adapter' = TRUE
    /\ apc' = [apc EXCEPT ![t] = "sp_procs"]
    /\ UNCHANGED <<aret, adapter_state, core_lock_writer, core_lock_readers,
                   ch_packet_cache, ch_channel, global_channel_initialized,
                   stop_calls,
                   global_channel>>
    /\ UNCHANGED notAdVars

\* down_write(&adapter->core_lock);
\* if (!adapter->stopping_adapter) adapter->stopping_adapter = true;
\* else adapter_stopped = true;
\* up_write(&adapter->core_lock);  if (adapter_stopped) return;
StopFlag(t) ==
    /\ apc[t] = "sp_flag"
    /\ CanDownWrite
    /\ stopping_adapter' = TRUE
    /\ apc' = [apc EXCEPT ![t] =
                  IF stopping_adapter THEN "sp_noop" ELSE "sp_procs"]
    /\ UNCHANGED <<aret, adapter_state, core_lock_writer, core_lock_readers,
                   ch_packet_cache, ch_channel, global_channel_initialized,
                   stop_calls,
                   global_channel>>
    /\ UNCHANGED notAdVars

\* under the global process-adapter lock: dxgprocess_adapter_stop(entry) for
\* every process bound to the adapter
StopProcesses(t) ==
    /\ apc[t] = "sp_procs"
    /\ stop_calls' = [stop_calls EXCEPT !.stop_devices = @ + 1]
    /\ apc' = [apc EXCEPT ![t] = "sp_lock"]
    /\ UNCHANGED <<aret, adapter_state, core_lock_writer, core_lock_readers,
                   stopping_adapter, ch_packet_cache, ch_channel,
                   global_channel_initialized,
                   global_channel>>
    /\ UNCHANGED notAdVars

\* dxgvmb_send_close_adapter(adapter) returns (its result is not looked at);
\* dxgadapter_release_lock_exclusive(adapter)
StopCloseAdapter(t) ==
    /\ apc[t] = "sp_close"
    /\ stop_calls' = [stop_calls EXCEPT !.close_adapter = @ + 1]
    /\ core_lock_writer' = 0
    /\ apc' = [apc EXCEPT ![t] = "sp_destroy"]
    /\ UNCHANGED <<aret, adapter_state, core_lock_readers, stopping_adapter,
                   ch_packet_cache, ch_channel, global_channel_initialized,
                   global_channel>>
    /\ UNCHANGED notAdVars

\* dxgvmbuschannel_destroy(&adapter->channel): the cache is destroyed and
\* the vmbus channel, when open, is closed
dxgvmbuschannel_destroy(t) ==
    /\ apc[t] = "sp_destroy"
    /\ ch_packet_cache' = FALSE
    /\ ch_channel' = FALSE
    /\ stop_calls' = [stop_calls EXCEPT
                         !.channel_destroy = @ + 1,
                         !.vmbus_close = IF ch_channel THEN @ + 1 ELSE @]
    /\ apc' = [apc EXCEPT ![t] = "sp_state"]
    /\ UNCHANGED <<aret, adapter_state, core_lock_writer, core_lock_readers,
                   stopping_adapter, global_channel_initialized,
                   global_channel>>
    /\ UNCHANGED notAdVars

\* adapter->adapter_state = DXGADAPTER_STATE_STOPPED (no lock is held)
StopSetState(t) ==
    /\ apc[t] = "sp_state"
    /\ adapter_state' = "STOPPED"
    /\ apc' = [apc EXCEPT ![t] = "sp_done"]
    /\ UNCHANGED <<aret, core_lock_writer, core_lock_readers,
                   stopping_adapter, ch_packet_cache, ch_channel,
                   global_channel_initialized, stop_calls,
                   global_channel>>
    /\ UNCHANGED notAdVars

NextAdapter ==
    \/ \E t \in AdapterThreads, op \in AdapterOps : AdapterCall(t, op)
    \/ \E t \in AdapterThreads, found \in BOOLEAN : StartFindChannel(t, found)
    \/ \E t \in AdapterThreads, ok \in BOOLEAN : StartGlobalInit(t, ok)
    \/ \E t \in AdapterThreads, r \in ChannelInitResults : StartChannelInit(t, r)
    \/ \E t \in AdapterThreads, ok \in BOOLEAN : StartOpenAdapter(t, ok)
    \/ \E t \in AdapterThreads, ok \in BOOLEAN : StartInternalInfo(t, ok)
    \/ \E t \in AdapterThreads : StopFlag(t)
    \/ \E t \in AdapterThreads : StopProcesses(t)
    \/ \E t \in AdapterThreads : ExclusiveLock(t, "sp_lock", "sp_check")
    \/ \E t \in AdapterThreads :
           ExclusiveCheck(t, "sp_check", "sp_close", "sp_destroy")
    \/ \E t \in AdapterThreads : StopCloseAdapter(t)
    \/ \E t \in AdapterThreads : dxgvmbuschannel_destroy(t)
    \/ \E t \in AdapterThreads : StopSetState(t)
    \/ \E t \in AdapterThreads : ExclusiveLock(t, "ax_lock", "ax_check")
    \/ \E t \in AdapterThreads :
           ExclusiveCheck(t, "ax_check", "held_x", "ax_fail")
    \/ \E t \in AdapterThreads : ExclusiveRelease(t, "held_x", "lk_released")
    \/ \E t \in AdapterThreads : SharedLock(t, "as_lock", "as_check")
    \/ \E t \in AdapterThreads : SharedCheck(t, "as_check", "held_s", "as_fail")
    \/ \E t \in AdapterThreads : SharedRelease(t, "held_s", "lk_released")

\* the adapter operations, with dxgadapter_start called at any time
NextAdapterCalls ==
    \/ NextAdapter
    \/ \E t \in AdapterThreads : StartCall(t)

(***************************************************************************)
(* Claims about the adapter                                                *)
(***************************************************************************)
\* positions of dxgadapter_stop past its early return
StopBody == {"sp_procs", "sp_lock", "sp_check", "sp_close", "sp_destroy",
             "sp_state"}

\* C6: dxgadapter_stop is idempotent.  However many threads call it, in
\* sequence or at once, only one call gets past the stopping flag: devices
\* are stopped, 'close adapter' is sent, and the channel is torn down (and
\* the vmbus channel closed) at most once each; every other call returns at
\* the flag.  Once a stop has run to its end the channel has been torn down
\* exactly once.
C6_StopIsIdempotent ==
    /\ stop_calls.stop_devices <= 1
    /\ stop_calls.close_adapter <= 1
    /\ stop_calls.channel_destroy <= 1
    /\ stop_calls.vmbus_close <= 1
    /\ Cardinality({t \in AdapterThreads : apc[t] \in StopBody}) <= 1
    /\ (\E t \in AdapterThreads : apc[t] = "sp_noop") => stopping_adapter
    /\ (stopping_adapter /\ \A t \in AdapterThreads : apc[t] \notin StopBody)
           => /\ stop_calls.stop_devices = 1
              /\ stop_calls.channel_destroy = 1

\* One call has stopped the adapter, closing an open channel, and a second
\* call has returned at the flag.
C6_Witness ==
    \E t1, t2 \in AdapterThreads :
        /\ t1 # t2
        /\ apc[t1] = "sp_done"
        /\ apc[t2] = "sp_noop"
        /\ stop_calls.vmbus_close = 1
        /\ stop_calls.close_adapter = 1

\* threads that hold the core lock after a successful acquisition
LockHolders ==
    {t \in AdapterThreads : apc[t] \in {"held_x", "held_s", "sp_close"}}

\* C7: while any thread holds the core lock after a successful acquisition
\* (shared or exclusive), the adapter state is ACTIVE.
C7_HolderSeesActive ==
    LockHolders # {} => adapter_state = "ACTIVE"

\* C8 (the failing return): whenever the state test of
\* dxgadapter_acquire_lock_exclusive finds a state other than ACTIVE, the
\* call returns -ENODEV and the caller does not hold the lock.
C8_FailsUnlocked ==
    \A t \in AdapterThreads :
        (/\ apc[t] \in {"ax_check", "sp_check"}
         /\ apc'[t] # apc[t]
         /\ adapter_state # "ACTIVE")
        => /\ aret'[t] = -ENODEV
           /\ core_lock_writer' # t
           /\ apc'[t] \in {"ax_fail", "sp_destroy"}

\* C8: exclusive acquisition on an adapter that is not ACTIVE fails with
\* -ENODEV with the lock not held, and a caller of
\* dxgadapter_acquire_lock_exclusive always comes back from it (with the lock
\* or with the error) when the holders of the lock release it.
C8_ExclusiveFailsWhenNotActive ==
    /\ [][C8_FailsUnlocked]_vars
    /\ \A t \in AdapterThreads :
           (apc[t] = "ax_lock") ~> (apc[t] \in {"held_x", "ax_fail"})

\* An exclusive acquisition on a STOPPED adapter has returned -ENODEV with
\* the lock free again.
C8_Witness ==
    \E t \in AdapterThreads :
        /\ apc[t] = "ax_fail"
        /\ aret[t] = -ENODEV
        /\ adapter_state = "STOPPED"
        /\ core_lock_writer = 0

\* C11: the adapter's state only moves CREATED -> ACTIVE -> STOPPED.  Across
\* any sequence of dxgadapter_start and dxgadapter_stop calls, a STOPPED
\* adapter stays STOPPED (a later start does not make it ACTIVE) and an ACTIVE
\* adapter never goes back to CREATED.
C11_StoppedIsTerminal ==
    [][/\ adapter_state = "STOPPED" => adapter_state' = "STOPPED"
       /\ adapter_state = "ACTIVE" => adapter_state' # "CREATED"]_vars

\* C12: whichever step of dxgadapter_start fails (no matching channel, the
\* global channel's initialisation, opening the adapter's channel, 'open
\* adapter', 'internal info'), the call returns with the adapter STOPPED and
\* with the channel's packet cache and vmbus channel released.
C12_FailedStartStoppedAndReleased ==
    [][\A t \in AdapterThreads :
           (apc[t] \in StartBody /\ apc'[t] = "st_failed")
           => /\ adapter_state' = "STOPPED"
              /\ ~ch_packet_cache'
              /\ ~ch_channel']_vars

C31_SendOnlyOnOpenChannel ==
    \A t \in AdapterThreads :
        apc[t] \in {"held_s", "held_x"} => (ch_channel /\ ch_packet_cache)

(***************************************************************************)
(* The device: dxgdevice_destroy                                           *)
(***************************************************************************)
\* threads that may call dxgdevice_destroy on the one device
NumDestroyers == 2
\* cap on the number of dxgdevice_destroy calls
MaxDestroyCalls == 2
\* most children of each kind (contexts, allocations, resources) on the device
MaxChildren == 1

Destroyers == 1..NumDestroyers

\* adapter->adapter_kref once a device exists: kref_init in
\* dxgadapter_create, kref_get in dxgprocess_adapter_create and kref_get in
\* dxgdevice_create
AdapterRefsInit == 3

NothingReleased == [adapter |-> 0, device |-> 0, rpc |-> 0, rpc_failed |-> 0]

\* The device in state st, with a registered handle or not (hv), and with
\* nc contexts, na allocations and nr resources, each with its handle.
\* device_kref: kref_init, one reference per child (dxgcontext_create,
\* dxgdevice_add_alloc, dxgdevice_add_resource) and one held by each thread
\* that may call dxgdevice_destroy.
DeviceIs(st, hv, nc, na, nr) ==
    /\ dpc = [t \in Destroyers |-> "idle"]
    /\ object_state = st
    /\ handle_valid = hv
    /\ device_lock_writer = 0
    /\ device_list_linked = TRUE
    /\ context_list = nc
    /\ alloc_list = na
    /\ resource_list = nr
    /\ hmgr = [device |-> IF hv THEN 1 ELSE 0, context |-> nc,
               allocation |-> na, resource |-> nr]
    /\ adapter_kref = AdapterRefsInit
    /\ device_kref = 1 + nc + na + nr + NumDestroyers
    /\ device_handle = [t \in Destroyers |-> FALSE]
    /\ seen_state = [t \in Destroyers |-> "none"]
    /\ released = [t \in Destroyers |-> NothingReleased]
    /\ destroy_calls = 0
    /\ caller_ref = [t \in Destroyers |-> TRUE]

\* the device as dxgdevice_create leaves it
DeviceCreated == DeviceIs("CREATED", FALSE, 0, 0, 0)

\* A device after dxgdevice_create (CREATED, no handle, no children) or after
\* it was made ACTIVE (with or without a registered handle, with children).
InitDevice ==
    \E st \in {"CREATED", "ACTIVE"}, hv \in BOOLEAN,
       nc \in 0..MaxChildren, na \in 0..MaxChildren, nr \in 0..MaxChildren :
        /\ st = "CREATED" => (~hv /\ nc = 0 /\ na = 0 /\ nr = 0)
        /\ DeviceIs(st, hv, nc, na, nr)

\* a thread calls dxgdevice_destroy(device)
DestroyCall(t) ==
    /\ dpc[t] \in {"idle", "dd_done"}
    /\ caller_ref[t]
    /\ device_kref > 0
    /\ destroy_calls < MaxDestroyCalls
    /\ destroy_calls' = destroy_calls + 1
    /\ dpc' = [dpc EXCEPT ![t] = "dd_lock"]
    /\ device_handle' = [device_handle EXCEPT ![t] = FALSE]
    /\ seen_state' = [seen_state EXCEPT ![t] = "none"]
    /\ released' = [released EXCEPT ![t] = NothingReleased]
    /\ UNCHANGED <<object_state, handle_valid, device_lock_writer,
                   device_list_linked, context_list, alloc_list,
                   resource_list, hmgr, adapter_kref, device_kref,
                   caller_ref>>
    /\ UNCHANGED notDevVars

\* down_write(&device->device_lock);
\* if (device->object_state != DXGOBJECTSTATE_ACTIVE) goto cleanup;
\* device->object_state = DXGOBJECTSTATE_DESTROYED; dxgdevice_stop(device);
DestroyEnter(t) ==
    /\ dpc[t] = "dd_lock"
    /\ device_lock_writer = 0
    /\ device_lock_writer' = t
    /\ seen_state' = [seen_state EXCEPT ![t] = object_state]
    /\ IF object_state # "ACTIVE"
       THEN /\ dpc' = [dpc EXCEPT ![t] = "dd_cleanup"]
            /\ UNCHANGED object_state
       ELSE /\ object_state' = "DESTROYED"
            /\ dpc' = [dpc EXCEPT ![t] = "dd_allocs"]
    /\ UNCHANGED <<handle_valid, device_list_linked, context_list, alloc_list,
                   resource_list, hmgr, adapter_kref, device_kref,
                   device_handle, released, destroy_calls,
                   caller_ref>>
    /\ UNCHANGED notDevVars

\* Under alloc_list_lock: the sync objects (placeholders), then
\* dxgallocation_destroy for every allocation of the device (it is unlinked,
\* its reference on the device put, its handle freed, and one 'destroy
\* allocation' call sent for it), then dxgresource_destroy for every
\* resource (handle freed, one 'destroy allocation' call naming the resource,
\* unlinked, its reference on the device put).  A call is sent only when
\* init_message gets its buffer (msg_ok).
DestroyAllocsResources(t, msg_ok) ==
    /\ dpc[t] = "dd_allocs"
    /\ alloc_list' = 0
    /\ resource_list' = 0
    /\ hmgr' = [hmgr EXCEPT !.allocation = @ - alloc_list,
                            !.resource = @ - resource_list]
    /\ device_kref' = device_kref - alloc_list - resource_list
    /\ released' = [released EXCEPT
                       ![t].device = @ + alloc_list + resource_list,
                       ![t].rpc = IF msg_ok
                                  THEN @ + alloc_list + resource_list
                                  ELSE @]
    /\ dpc' = [dpc EXCEPT ![t] = "dd_contexts"]
    /\ UNCHANGED <<object_state, handle_valid, device_lock_writer,
                   device_list_linked, context_list, adapter_kref,
                   device_handle, seen_state, destroy_calls,
                   caller_ref>>
    /\ UNCHANGED notDevVars

\* Under context_list_lock: dxgcontext_destroy for every context (handle
\* freed, unlinked, its reference on the device put); then the paging queues
\* (placeholders).
DestroyContexts(t) ==
    /\ dpc[t] = "dd_contexts"
    /\ context_list' = 0
    /\ hmgr' = [hmgr EXCEPT !.context = @ - context_list]
    /\ device_kref' = device_kref - context_list
    /\ released' = [released EXCEPT ![t].device = @ + context_list]
    /\ dpc' = [dpc EXCEPT ![t] = "dd_handle"]
    /\ UNCHANGED <<object_state, handle_valid, device_lock_writer,
                   device_list_linked, alloc_list, resource_list,
                   adapter_kref, device_handle, seen_state, destroy_calls,
                   caller_ref>>
    /\ UNCHANGED notDevVars

\* a variant that keeps the handle registered until after the host call
DestroyFreeHandleLate(t) ==
    /\ dpc[t] = "dd_handle"
    /\ handle_valid' = FALSE
    /\ device_handle' = [device_handle EXCEPT ![t] = handle_valid]
    /\ IF handle_valid
       THEN /\ device_lock_writer' = 0
            /\ dpc' = [dpc EXCEPT ![t] = "dd_acquire"]
       ELSE /\ dpc' = [dpc EXCEPT ![t] = "dd_cleanup"]
            /\ UNCHANGED device_lock_writer
    /\ UNCHANGED <<object_state, device_list_linked, context_list, alloc_list,
                   resource_list, hmgr, adapter_kref, device_kref, seen_state,
                   released, destroy_calls,
                   caller_ref>>
    /\ UNCHANGED notDevVars


\* a variant that keeps device_lock across the host call
DestroyFreeHandleKeepsLock(t) ==
    /\ dpc[t] = "dd_handle"
    /\ handle_valid' = FALSE
    /\ hmgr' = [hmgr EXCEPT !.device = IF handle_valid THEN @ - 1 ELSE @]
    /\ device_handle' = [device_handle EXCEPT ![t] = handle_valid]
    /\ dpc' = [dpc EXCEPT ![t] = IF handle_valid THEN "dd_acquire"
                                 ELSE "dd_cleanup"]
    /\ UNCHANGED <<object_state, device_list_linked, context_list, alloc_list,
                   resource_list, adapter_kref, device_kref, seen_state,
                   released, destroy_calls, device_lock_writer,
                   caller_ref>>
    /\ UNCHANGED notDevVars

\* hmgrtable_lock; if (device->handle_valid) { hmgrtable_free_handle(...);
\* device_handle = device->handle; device->handle_valid = 0; }
\* hmgrtable_unlock; if (device_handle.v) up_write(&device->device_lock);
DestroyFreeHandle(t) ==
    /\ dpc[t] = "dd_handle"
    /\ handle_valid' = FALSE
    /\ hmgr' = [hmgr EXCEPT !.device = IF handle_valid THEN @ - 1 ELSE @]
    /\ device_handle' = [device_handle EXCEPT ![t] = handle_valid]
    /\ IF handle_valid
       THEN /\ device_lock_writer' = 0
            /\ dpc' = [dpc EXCEPT ![t] = "dd_acquire"]
       ELSE /\ dpc' = [dpc EXCEPT ![t] = "dd_cleanup"]
            /\ UNCHANGED device_lock_writer
    /\ UNCHANGED <<object_state, device_list_linked, context_list, alloc_list,
                   resource_list, adapter_kref, device_kref, seen_state,
                   released, destroy_calls,
                   caller_ref>>
    /\ UNCHANGED notDevVars

\* a variant that gives up the teardown when the host call cannot be made
DestroySendDestroyDeviceAbort(t, active, msg_ok) ==
    /\ dpc[t] = "dd_acquire"
    /\ IF active /\ msg_ok
       THEN /\ released' = [released EXCEPT ![t].rpc = @ + 1]
            /\ dpc' = [dpc EXCEPT ![t] = "dd_rpc"]
       ELSE /\ dpc' = [dpc EXCEPT ![t] = "dd_put"]
            /\ UNCHANGED released
    /\ UNCHANGED <<object_state, handle_valid, device_lock_writer,
                   device_list_linked, context_list, alloc_list,
                   resource_list, hmgr, adapter_kref, device_kref,
                   device_handle, seen_state, destroy_calls,
                   caller_ref>>
    /\ UNCHANGED notDevVars

\* if (dxgadapter_acquire_lock_shared(adapter) == 0)
\*     dxgvmb_send_destroy_device(adapter, process, device_handle);
\* The acquisition fails on an adapter that is not ACTIVE (active = FALSE);
\* the call is sent when init_message gets its buffer (msg_ok).
DestroySendDestroyDevice(t, active, msg_ok) ==
    /\ dpc[t] = "dd_acquire"
    /\ IF active /\ msg_ok
       THEN /\ released' = [released EXCEPT ![t].rpc = @ + 1]
            /\ dpc' = [dpc EXCEPT ![t] = "dd_rpc"]
       ELSE /\ dpc' = [dpc EXCEPT ![t] = "dd_relock"]
            /\ UNCHANGED released
    /\ UNCHANGED <<object_state, handle_valid, device_lock_writer,
                   device_list_linked, context_list, alloc_list,
                   resource_list, hmgr, adapter_kref, device_kref,
                   device_handle, seen_state, destroy_calls,
                   caller_ref>>
    /\ UNCHANGED notDevVars

\* dxgvmb_send_destroy_device returns, with success or with an error (ok);
\* the value is not looked at; dxgadapter_release_lock_shared(adapter)
DestroyRpcReturns(t, ok) ==
    /\ dpc[t] = "dd_rpc"
    /\ released' = [released EXCEPT
                       ![t].rpc_failed = IF ok THEN @ ELSE @ + 1]
    /\ dpc' = [dpc EXCEPT ![t] = "dd_relock"]
    /\ UNCHANGED <<object_state, handle_valid, device_lock_writer,
                   device_list_linked, context_list, alloc_list,
                   resource_list, hmgr, adapter_kref, device_kref,
                   device_handle, seen_state, destroy_calls,
                   caller_ref>>
    /\ UNCHANGED notDevVars

\* down_write(&device->device_lock) after the host call
DestroyRelock(t) ==
    /\ dpc[t] = "dd_relock"
    /\ device_lock_writer = 0
    /\ device_lock_writer' = t
    /\ dpc' = [dpc EXCEPT ![t] = "dd_cleanup"]
    /\ UNCHANGED <<object_state, handle_valid, device_list_linked,
                   context_list, alloc_list, resource_list, hmgr,
                   adapter_kref, device_kref, device_handle, seen_state,
                   released, destroy_calls,
                   caller_ref>>
    /\ UNCHANGED notDevVars

\* a variant that forgets the adapter reference
DestroyCleanupNoPut(t) ==
    /\ dpc[t] = "dd_cleanup"
    /\ device_list_linked' = FALSE
    /\ device_lock_writer' = 0
    /\ dpc' = [dpc EXCEPT ![t] = "dd_put"]
    /\ UNCHANGED <<object_state, handle_valid, context_list, alloc_list,
                   resource_list, hmgr, adapter_kref, device_kref,
                   device_handle, seen_state, released, destroy_calls,
                   caller_ref>>
    /\ UNCHANGED notDevVars

\* cleanup: if (device->adapter) { dxgprocess_adapter_remove_device(device);
\*     kref_put(&device->adapter->adapter_kref, dxgadapter_release); }
\* up_write(&device->device_lock);
\* device->adapter is set by dxgdevice_create and never cleared.
DestroyCleanup(t) ==
    /\ dpc[t] = "dd_cleanup"
    /\ device_list_linked' = FALSE
    /\ adapter_kref' = adapter_kref - 1
    /\ released' = [released EXCEPT ![t].adapter = @ + 1]
    /\ device_lock_writer' = 0
    /\ dpc' = [dpc EXCEPT ![t] = "dd_put"]
    /\ UNCHANGED <<object_state, handle_valid, context_list, alloc_list,
                   resource_list, hmgr, device_kref, device_handle,
                   seen_state, destroy_calls,
                   caller_ref>>
    /\ UNCHANGED notDevVars

\* kref_put(&device->device_kref, dxgdevice_release)
DestroyPut(t) ==
    /\ dpc[t] = "dd_put"
    /\ device_kref' = device_kref - 1
    /\ released' = [released EXCEPT ![t].device = @ + 1]
    /\ dpc' = [dpc EXCEPT ![t] = "dd_done"]
    /\ UNCHANGED <<object_state, handle_valid, device_lock_writer,
                   device_list_linked, context_list, alloc_list,
                   resource_list, hmgr, adapter_kref, device_handle,
                   seen_state, destroy_calls,
                   caller_ref>>
    /\ UNCHANGED notDevVars

\* dxgdevice_mark_destroyed(device): down_write(&device->device_lock);
\* device->object_state = DXGOBJECTSTATE_DESTROYED; up_write
dxgdevice_mark_destroyed(t) ==
    /\ dpc[t] \in {"idle", "dd_done"}
    /\ caller_ref[t]
    /\ device_kref > 0
    /\ device_lock_writer = 0
    /\ object_state' = "DESTROYED"
    /\ UNCHANGED <<dpc, handle_valid, device_lock_writer, device_list_linked,
                   context_list, alloc_list, resource_list, hmgr,
                   adapter_kref, device_kref, device_handle, seen_state,
                   released, destroy_calls, caller_ref>>
    /\ UNCHANGED notDevVars

\* a thread that is not inside a call drops the reference it holds:
\* kref_put(&device->device_kref, dxgdevice_release); the count reaching
\* zero runs dxgdevice_release, which frees the device
CallerPut(t) ==
    /\ dpc[t] \in {"idle", "dd_done"}
    /\ caller_ref[t]
    /\ device_kref > 0
    /\ caller_ref' = [caller_ref EXCEPT ![t] = FALSE]
    /\ device_kref' = device_kref - 1
    /\ UNCHANGED <<dpc, object_state, handle_valid, device_lock_writer,
                   device_list_linked, context_list, alloc_list,
                   resource_list, hmgr, adapter_kref, device_handle,
                   seen_state, released, destroy_calls>>
    /\ UNCHANGED notDevVars

NextDevice ==
    \/ \E t \in Destroyers : DestroyCall(t)
    \/ \E t \in Destroyers : DestroyEnter(t)
    \/ \E t \in Destroyers, msg_ok \in BOOLEAN : DestroyAllocsResources(t, msg_ok)
    \/ \E t \in Destroyers : DestroyContexts(t)
    \/ \E t \in Destroyers : DestroyFreeHandle(t)
    \/ \E t \in Destroyers, active \in BOOLEAN, msg_ok \in BOOLEAN :
           DestroySendDestroyDevice(t, active, msg_ok)
    \/ \E t \in Destroyers, ok \in BOOLEAN : DestroyRpcReturns(t, ok)
    \/ \E t \in Destroyers : DestroyRelock(t)
    \/ \E t \in Destroyers : DestroyCleanup(t)
    \/ \E t \in Destroyers : DestroyPut(t)
    \/ \E t \in Destroyers : dxgdevice_mark_destroyed(t)
    \/ \E t \in Destroyers : CallerPut(t)

(***************************************************************************)
(* Claims about the device                                                 *)
(***************************************************************************)
\* C3: in no reachable state is the 'destroy device' host call sent or in
\* flight while the device's handle is still registered in the process
\* handle table: the handle is freed first.
C3_HandleFreedBeforeHostCall ==
    \A t \in Destroyers :
        dpc[t] = "dd_rpc" => (hmgr.device = 0 /\ ~handle_valid)

\* the destroy of an ACTIVE device with a registered handle has its
\* 'destroy device' call in flight
C3_Witness ==
    \E t \in Destroyers :
        /\ dpc[t] = "dd_rpc"
        /\ seen_state[t] = "ACTIVE"
        /\ device_handle[t]
        /\ hmgr.device = 0

\* C9: a dxgdevice_destroy call that found the device ACTIVE puts exactly
\* one adapter reference by the time it returns, and puts none before its
\* cleanup; when it is the only destroy call made, the adapter's count after
\* it is the count before minus one.  This is so whatever the number of
\* children and whether the 'destroy device' call was sent or not.
C9_OneAdapterReferenceReleased ==
    \A t \in Destroyers :
        seen_state[t] = "ACTIVE" =>
            /\ dpc[t] \in {"dd_put", "dd_done"} => released[t].adapter = 1
            /\ dpc[t] \notin {"dd_put", "dd_done"} => released[t].adapter = 0
            /\ (dpc[t] = "dd_done" /\ destroy_calls = 1)
                   => adapter_kref = AdapterRefsInit - 1

\* the one destroy call of an ACTIVE device has returned, having sent host
\* calls, and the adapter's count is one lower
C9_Witness ==
    \E t \in Destroyers :
        /\ dpc[t] = "dd_done"
        /\ seen_state[t] = "ACTIVE"
        /\ destroy_calls = 1
        /\ released[t].rpc > 1
        /\ released[t].device > 1
        /\ adapter_kref = AdapterRefsInit - 1

\* C10: a dxgdevice_destroy call that found the device already DESTROYED
\* releases no adapter reference and no device reference and sends no host
\* call.
C10_SecondDestroyIsNoOp ==
    \A t \in Destroyers :
        (dpc[t] = "dd_done" /\ seen_state[t] = "DESTROYED")
            => released[t] = NothingReleased


\* C32: dxgdevice_destroy does not hold the device lock while the 'destroy
\* device' host call is outstanding.  From the release that follows the
\* freeing of the device handle until the lock is taken again (the shared
\* adapter lock, the call, its return) the destroying thread does not hold
\* device_lock, so another thread can take it; the thread holds it again
\* when it reaches cleanup.
C32_DeviceLockFreeDuringRpc ==
    \A t \in Destroyers :
        /\ dpc[t] \in {"dd_acquire", "dd_rpc", "dd_relock"} =>
               (device_lock_writer # t /\ device_handle[t])
        /\ dpc[t] \in {"dd_allocs", "dd_contexts", "dd_handle", "dd_cleanup"}
               => device_lock_writer = t

\* while one thread's 'destroy device' call is in flight another thread has
\* taken the device lock and has found the device not ACTIVE
C32_Witness ==
    \E t, u \in Destroyers :
        /\ t # u
        /\ dpc[t] = "dd_rpc"
        /\ dpc[u] = "dd_cleanup"
        /\ device_lock_writer = u
        /\ seen_state[u] = "DESTROYED"

\* the local state of a device whose teardown has completed
DeviceTornDown ==
    /\ object_state = "DESTROYED"
    /\ context_list = 0 /\ alloc_list = 0 /\ resource_list = 0
    /\ hmgr = [device |-> 0, context |-> 0, allocation |-> 0, resource |-> 0]
    /\ ~handle_valid
    /\ ~device_list_linked

\* C14: a dxgdevice_destroy call on an ACTIVE device always completes the
\* local teardown: when it returns, every child is unlinked with its handle
\* freed and its reference on the device put, the device handle is freed,
\* the device is off its list and the adapter reference is put.  This local
\* state is the same whether the host calls were sent and succeeded, were
\* sent and failed, or were not sent at all.
C14_TeardownAlwaysCompletes ==
    \A t \in Destroyers :
        (dpc[t] = "dd_done" /\ seen_state[t] = "ACTIVE") =>
            /\ DeviceTornDown
            /\ released[t].adapter = 1
            /\ released[t].device >= 1
            /\ destroy_calls = 1 =>
                   /\ device_kref =
                          Cardinality({u \in Destroyers : caller_ref[u]})
                   /\ adapter_kref = AdapterRefsInit - 1
                   /\ device_lock_writer = 0

\* a destroy of a device with a handle and children has returned with the
\* teardown complete although no host call could be sent
C14_Witness ==
    \E t \in Destroyers :
        /\ dpc[t] = "dd_done" /\ seen_state[t] = "ACTIVE"
        /\ device_handle[t]
        /\ released[t].rpc = 0
        /\ released[t].device > 1
        /\ DeviceTornDown

\* a destroy has returned with the teardown complete after the host
\* answered 'destroy device' with an error
C14_WitnessRpcFailed ==
    \E t \in Destroyers :
        /\ dpc[t] = "dd_done" /\ seen_state[t] = "ACTIVE"
        /\ released[t].rpc_failed = 1
        /\ DeviceTornDown

(***************************************************************************)
(* Batch allocation create: create_local_allocations and its rollback      *)
(***************************************************************************)
\* most allocations in one batch
MaxAllocs == 2

\* how the batch relates to a resource: none (the allocations belong to the
\* device), a new one (args->flags.create_resource), or an existing one
\* (args->resource)
ResourceKinds == {"none", "new", "existing"}

NoResource == [exists |-> FALSE, handle_v |-> FALSE, handle_valid |-> FALSE,
               flags |-> 0, resource_kref |-> 0, linked |-> FALSE]

\* dxgresource_create: kref_init, linked on the device's resource list
NewResource == [exists |-> TRUE, handle_v |-> FALSE, handle_valid |-> FALSE,
                flags |-> 0, resource_kref |-> 1, linked |-> TRUE]

\* a resource created by an earlier call, with its handle registered
ExistingResource == [NewResource EXCEPT !.handle_v = TRUE,
                                        !.handle_valid = TRUE]

\* dxgallocation_create, then dxgresource_add_alloc or dxgdevice_add_alloc
NewAllocation(kind) ==
    [present |-> TRUE, alloc_handle_v |-> FALSE, handle_valid |-> FALSE,
     resource_owner |-> (kind # "none"), linked |-> TRUE]

\* nothing is being created
InitAlloc ==
    /\ cpc = "idle"
    /\ args = [alloc_count |-> 0, create_resource |-> FALSE]
    /\ resource = NoResource
    /\ dxgalloc = << >>
    /\ handle_table = {}
    /\ msg_built = FALSE
    /\ cret = 0
    /\ host_log = << >>
    /\ assign_failed = {}

\* The host has created the batch (dxgvmb_send_sync_msg returned >= 0 in
\* dxgvmb_send_create_allocation) and create_local_allocations is called
\* with the n allocation objects and the resource object of the batch.
CreateLocalCall(n, kind) ==
    /\ cpc = "idle"
    /\ args' = [alloc_count |-> n, create_resource |-> (kind = "new")]
    /\ resource' = CASE kind = "none" -> NoResource
                     [] kind = "new" -> NewResource
                     [] kind = "existing" -> ExistingResource
    /\ dxgalloc' = [i \in 1..n |-> NewAllocation(kind)]
    /\ handle_table' = IF kind = "existing" THEN {<<"resource", 0>>} ELSE {}
    /\ cpc' = "cl_init"
    /\ UNCHANGED <<msg_built, cret, host_log, assign_failed>>
    /\ UNCHANGED notAllocVars

\* ret = init_message(&msg, device->adapter, process, destroy_buffer_size);
\* if (ret) goto cleanup;  then the destroy command is prepared
InitDestroyMessage(ok) ==
    /\ cpc = "cl_init"
    /\ msg_built' = ok
    /\ cret' = IF ok THEN 0 ELSE -ENOMEM
    /\ cpc' = IF ok THEN "cl_copy" ELSE "rb_free"
    /\ UNCHANGED <<args, resource, dxgalloc, handle_table, host_log,
                   assign_failed>>
    /\ UNCHANGED notAllocVars

\* The copies to the caller: the resource handle, and for each allocation
\* create_existing_sysmem, its private data and its handle.  The first that
\* fails sets ret = -EINVAL and goes to cleanup.
CopyResultsToUser(ok) ==
    /\ cpc = "cl_copy"
    /\ cret' = IF ok THEN 0 ELSE -EINVAL
    /\ cpc' = IF ok THEN "cl_handles" ELSE "rb_free"
    /\ UNCHANGED <<args, resource, dxgalloc, handle_table, msg_built,
                   host_log, assign_failed>>
    /\ UNCHANGED notAllocVars

\* the handle-table entries of the batch's allocations
AllocHandles(n) == {<<"allocation", i>> : i \in 1..n}

\* process_allocation_handles, under the handle-table lock.  The resource
\* handle is assigned when the batch creates a resource (res_ok: the
\* assignment succeeds); a failure is logged and the loop over the
\* allocations runs all the same, each assignment storing its result in
\* ret.  The loop stops at the first allocation whose assignment fails
\* (fail_at; 0 when none does).  The value returned is ret as the last
\* assignment left it.
process_allocation_handles(res_ok, fail_at) ==
    LET n == args.alloc_count
        assigned == IF fail_at = 0 THEN n ELSE fail_at - 1
        res_failed == args.create_resource /\ ~res_ok
        ret == IF fail_at # 0 THEN -ENOMEM
               ELSE IF n = 0 /\ res_failed THEN -ENOMEM
               ELSE 0
    IN  /\ cpc = "cl_handles"
        /\ fail_at \in 0..n
        /\ ~args.create_resource => res_ok
        /\ resource' = IF args.create_resource /\ res_ok
                       THEN [resource EXCEPT !.handle_v = TRUE,
                                             !.handle_valid = TRUE]
                       ELSE resource
        /\ dxgalloc' = [i \in 1..n |->
                           IF i <= assigned
                           THEN [dxgalloc[i] EXCEPT !.alloc_handle_v = TRUE,
                                                    !.handle_valid = TRUE]
                           ELSE dxgalloc[i]]
        /\ handle_table' = handle_table
                             \cup AllocHandles(assigned)
                             \cup (IF args.create_resource /\ res_ok
                                   THEN {<<"resource", 0>>} ELSE {})
        /\ assign_failed' =
               (IF res_failed THEN {<<"resource", 0>>} ELSE {})
                   \cup (IF fail_at # 0 THEN {<<"allocation", fail_at>>}
                         ELSE {})
        /\ cret' = ret
        /\ cpc' = IF ret < 0 THEN "rb_free" ELSE "cl_share"
        /\ UNCHANGED <<args, msg_built, host_log>>
        /\ UNCHANGED notAllocVars

\* ret = copy_to_user(&input_args->global_share, ...); if (ret) ret = -EINVAL
CopyGlobalShare(ok) ==
    /\ cpc = "cl_share"
    /\ cret' = IF ok THEN 0 ELSE -EINVAL
    /\ cpc' = IF ok THEN "cl_done" ELSE "rb_free"
    /\ UNCHANGED <<args, resource, dxgalloc, handle_table, msg_built,
                   host_log, assign_failed>>
    /\ UNCHANGED notAllocVars

\* cleanup with ret < 0, under alloc_list_lock: dxgallocation_free_handle for
\* every allocation, and dxgresource_free_handle when the batch created the
\* resource.  Both clear handle_valid and leave the handle value in place.
RollbackFreeHandles ==
    /\ cpc = "rb_free"
    /\ dxgalloc' = [i \in DOMAIN dxgalloc |->
                       [dxgalloc[i] EXCEPT !.handle_valid = FALSE]]
    /\ resource' = IF resource.exists /\ args.create_resource
                   THEN [resource EXCEPT !.handle_valid = FALSE]
                   ELSE resource
    /\ handle_table' = (handle_table \ AllocHandles(args.alloc_count))
                           \ (IF resource.exists /\ args.create_resource
                              THEN {<<"resource", 0>>} ELSE {})
    /\ cpc' = "rb_send"
    /\ UNCHANGED <<args, msg_built, cret, host_log, assign_failed>>
    /\ UNCHANGED notAllocVars

\* what the compensating send can do: the host accepts it, it fails, or
\* (sent with a message init_message never built: msg.hdr and msg.channel
\* are NULL) the kernel faults
RollbackSendResults == {"ok", "fail", "oops"}

\* ret1 = dxgvmb_send_sync_msg_ntstatus(msg.channel, msg.hdr, msg.size):
\* one 'destroy allocation' call for the whole batch; ret1 is only logged
RollbackSend(r) ==
    /\ cpc = "rb_send"
    /\ r = "oops" => ~msg_built
    /\ IF r = "oops"
       THEN /\ cpc' = "oops"
            /\ UNCHANGED host_log
       ELSE /\ cpc' = "rb_destroy"
            /\ host_log' = Append(host_log,
                   [cmd |-> "DESTROYALLOCATION", built |-> msg_built,
                    alloc_count |-> args.alloc_count, resource |-> FALSE,
                    status |-> r])
    /\ UNCHANGED <<args, resource, dxgalloc, handle_table, msg_built, cret,
                   assign_failed>>
    /\ UNCHANGED notAllocVars

\* dxgresource_destroy(resource), first call (bit 0 of flags clear): the
\* handle is freed, 'destroy allocation' naming the resource is sent when
\* resource->handle.v is set, handle.v is cleared, the resource is unlinked;
\* every call puts one reference.
dxgresource_destroy(res) ==
    IF res.flags = 0
    THEN [res EXCEPT !.flags = 1,
                     !.handle_valid = FALSE,
                     !.handle_v = FALSE,
                     !.linked = FALSE,
                     !.resource_kref = @ - 1]
    ELSE [res EXCEPT !.resource_kref = @ - 1]

\* the host call dxgresource_destroy sends, if any: dxgvmb_send_destroy_allocation
\* sends when init_message gets its buffer (msg_ok)
ResourceDestroyCalls(res, msg_ok) ==
    IF res.flags = 0 /\ res.handle_v /\ msg_ok
    THEN <<[cmd |-> "DESTROYALLOCATION", built |-> TRUE, alloc_count |-> 0,
            resource |-> TRUE, status |-> "ok"]>>
    ELSE << >>

\* Under alloc_list_lock: for every allocation alloc_handle.v = 0 and
\* dxgallocation_destroy (unlinked, no host call since the handle value is
\* zero, freed), dxgalloc[i] = NULL; then, when the batch created the
\* resource, kref_get and dxgresource_destroy.
RollbackDestroy(msg_ok) ==
    /\ cpc = "rb_destroy"
    /\ dxgalloc' = [i \in DOMAIN dxgalloc |->
                       [dxgalloc[i] EXCEPT !.present = FALSE,
                                           !.alloc_handle_v = FALSE,
                                           !.linked = FALSE]]
    /\ IF resource.exists /\ args.create_resource
       THEN /\ resource' = dxgresource_destroy(
                             [resource EXCEPT !.resource_kref = @ + 1])
            /\ host_log' = host_log \o ResourceDestroyCalls(resource, msg_ok)
       ELSE UNCHANGED <<resource, host_log>>
    /\ cpc' = "cl_done"
    /\ UNCHANGED <<args, handle_table, msg_built, cret, assign_failed>>
    /\ UNCHANGED notAllocVars

\* create_local_allocations has returned; the next batch starts afresh
CreateLocalReturn ==
    /\ cpc \in {"cl_done", "oops"}
    /\ cpc' = "idle"
    /\ args' = [alloc_count |-> 0, create_resource |-> FALSE]
    /\ resource' = NoResource
    /\ dxgalloc' = << >>
    /\ handle_table' = {}
    /\ msg_built' = FALSE
    /\ cret' = 0
    /\ host_log' = << >>
    /\ assign_failed' = {}
    /\ UNCHANGED notAllocVars

NextAlloc ==
    \/ \E n \in 1..MaxAllocs, kind \in ResourceKinds : CreateLocalCall(n, kind)
    \/ \E ok \in BOOLEAN : InitDestroyMessage(ok)
    \/ \E ok \in BOOLEAN : CopyResultsToUser(ok)
    \/ \E res_ok \in BOOLEAN, fail_at \in 0..MaxAllocs :
           process_allocation_handles(res_ok, fail_at)
    \/ \E ok \in BOOLEAN : CopyGlobalShare(ok)
    \/ RollbackFreeHandles
    \/ \E r \in RollbackSendResults : RollbackSend(r)
    \/ \E msg_ok \in BOOLEAN : RollbackDestroy(msg_ok)
    \/ CreateLocalReturn

(***************************************************************************)
(* Claims about the batch allocation create                                *)
(***************************************************************************)
\* the registered handles that belong to the batch: its allocations', and
\* the handle of the resource it created
BatchHandles ==
    {h \in handle_table : h[1] = "allocation" \/ args.create_resource}

\* C4: when a handle registration of the batch has failed (the resource's or
\* any allocation's), no handle of the batch is registered once
\* create_local_allocations has returned.
C4_NoHandleLeftAfterFailedRegistration ==
    (cpc = "cl_done" /\ assign_failed # {}) => BatchHandles = {}

\* C5: when a handle registration of the batch has failed and the rollback
\* has run, exactly one 'destroy allocation' call has been sent by the time
\* create_local_allocations returns, and that call names all the
\* allocations of the batch; no second call follows it.
C5_OneCompensatingCall ==
    (cpc = "cl_done" /\ assign_failed # {} /\ cret < 0)
        => /\ Len(host_log) = 1
           /\ host_log[1].alloc_count = args.alloc_count

\* C36: process_allocation_handles returns failure whenever a handle
\* registration of the batch fails, the resource's included: the call goes on
\* past it (to the copy of the global share) only when every registration
\* succeeded, and a batch that created a resource is never reported created
\* (return 0) with the resource's handle unregistered.
C36_FailedRegistrationIsReported ==
    /\ cpc = "cl_share" => assign_failed = {}
    /\ (cpc = "cl_done" /\ cret = 0 /\ args.create_resource)
           => (resource.handle_valid /\ <<"resource", 0>> \in handle_table)

\* C38: the compensating 'destroy allocation' call of create_local_allocations
\* is only sent with a destroy message that init_message built (and so with
\* msg.channel set): when init_message failed, the rollback does not reach
\* the send, nothing unbuilt goes to the host and the kernel does not fault.
C38_CompensationOnlyWithBuiltMessage ==
    /\ cpc = "rb_send" => msg_built
    /\ cpc # "oops"
    /\ \A i \in DOMAIN host_log : host_log[i].built

\* the local objects of the batch are all still there
BatchObjectsPresent ==
    /\ \A i \in DOMAIN dxgalloc : dxgalloc[i].present
    /\ args.create_resource => (resource.flags = 0 /\ resource.linked)

\* the local objects of the batch have all been destroyed
BatchObjectsDestroyed ==
    /\ \A i \in DOMAIN dxgalloc : ~dxgalloc[i].present /\ ~dxgalloc[i].linked
    /\ args.create_resource => (resource.flags = 1 /\ ~resource.linked)

\* C13: whenever create_local_allocations fails, its rollback runs in this
\* order: the registered handles of the batch are freed; then the
\* compensating 'destroy allocation' call, built for the whole batch, is
\* sent; then the local objects are destroyed.  Whether the compensating call
\* succeeds or fails, the objects are destroyed and the caller gets the
\* error of the step that failed.
C13_RollbackOrder ==
    /\ cpc = "rb_send" => (BatchHandles = {} /\ BatchObjectsPresent)
    /\ cpc = "rb_destroy" =>
           /\ BatchHandles = {}
           /\ BatchObjectsPresent
           /\ Len(host_log) = 1
           /\ host_log[1].built
           /\ host_log[1].alloc_count = args.alloc_count
    /\ cpc = "oops" => FALSE
    /\ (cpc = "cl_done" /\ cret < 0) =>
           /\ BatchObjectsDestroyed
           /\ Len(host_log) >= 1 /\ host_log[1].built
           /\ cret \in {-ENOMEM, -EINVAL}

\* C18: every handle registered in the process handle table refers to an
\* object whose memory has not been released.  The device's handle is
\* registered only while the device holds references; the registered
\* context, allocation and resource handles are those of the children still
\* linked to the device; and the registered handles of a batch are those of
\* allocation and resource objects that still exist.  This is so on every
\* teardown path, including the destroy of a device that is not ACTIVE and
\* the rollback of a batch create.
C18_RegisteredHandlesAreLive ==
    /\ hmgr.device > 0 => device_kref > 0
    /\ hmgr.context = context_list
    /\ hmgr.allocation = alloc_list
    /\ hmgr.resource = resource_list
    /\ \A h \in handle_table :
           IF h[1] = "allocation"
           THEN h[2] \in DOMAIN dxgalloc /\ dxgalloc[h[2]].present
           ELSE resource.exists /\ resource.resource_kref > 0

(***************************************************************************)
(* The children of a device: contexts, allocations and resources           *)
(* (dxgadapter.c).  The device's list locks make each of these operations  *)
(* one step; a list of the device is the set of children whose list entry  *)
(* is linked.                                                              *)
(***************************************************************************)
\* contexts, allocations and resources that can exist at one time
NumContexts == 2
NumAllocations == 2
NumResources == 1
\* cap on resource->resource_kref
MaxResourceRefs == 2

ContextIds == 1..NumContexts
AllocationIds == 1..NumAllocations
ResourceIds == 1..NumResources

\* memory not allocated (or freed)
NoContext == [exists |-> FALSE, context_kref |-> 0, device |-> FALSE,
              linked |-> FALSE, object_state |-> "NONE"]
NoAllocation == [exists |-> FALSE, resource_owner |-> FALSE,
                 owner_device |-> FALSE, owner_resource |-> 0,
                 linked |-> FALSE]
NoChildResource == [exists |-> FALSE, resource_kref |-> 0, flags |-> 0,
                    linked |-> FALSE, object_state |-> "NONE"]

\* dxgdevice_create: kref_init(&device->device_kref); no children yet
InitChildren ==
    /\ dxgdevice = [device_kref |-> 1]
    /\ dxgcontext = [c \in ContextIds |-> NoContext]
    /\ dxgallocation = [a \in AllocationIds |-> NoAllocation]
    /\ dxgresource = [r \in ResourceIds |-> NoChildResource]

\* device->context_list_head, alloc_list_head, resource_list_head
context_list_head == {c \in ContextIds : dxgcontext[c].exists /\ dxgcontext[c].linked}
alloc_list_head ==
    {a \in AllocationIds : /\ dxgallocation[a].exists
                           /\ dxgallocation[a].linked
                           /\ dxgallocation[a].owner_device}
resource_list_head ==
    {r \in ResourceIds : dxgresource[r].exists /\ dxgresource[r].linked}
\* resource->alloc_list_head
ResourceAllocs(r) ==
    {a \in AllocationIds : /\ dxgallocation[a].exists
                           /\ dxgallocation[a].linked
                           /\ dxgallocation[a].owner_resource = r}

kref_get_device == [dxgdevice EXCEPT !.device_kref = @ + 1]
kref_put_device == [dxgdevice EXCEPT !.device_kref = @ - 1]

\* dxgcontext_create: kref_init, context->device = device, kref_get on the
\* device, dxgdevice_add_context, state ACTIVE
dxgcontext_create(c) ==
    /\ dxgdevice.device_kref > 0
    /\ ~dxgcontext[c].exists
    /\ dxgcontext' = [dxgcontext EXCEPT ![c] =
           [exists |-> TRUE, context_kref |-> 1, device |-> TRUE,
            linked |-> TRUE, object_state |-> "ACTIVE"]]
    /\ dxgdevice' = kref_get_device
    /\ UNCHANGED <<dxgallocation, dxgresource>>
    /\ UNCHANGED notChildVars

\* dxgcontext_destroy that unlinks the context and keeps the device reference
dxgcontext_destroy_keep_ref(c) ==
    /\ dxgcontext[c].exists
    /\ dxgcontext' = [dxgcontext EXCEPT ![c] = NoContext]
    /\ UNCHANGED <<dxgdevice, dxgallocation, dxgresource>>
    /\ UNCHANGED notChildVars

\* dxgcontext_destroy / dxgcontext_destroy_safe: state DESTROYED; if
\* context->device: dxgdevice_remove_context and kref_put on the device;
\* then kref_put on the context, whose last reference frees it
dxgcontext_destroy(c) ==
    /\ dxgcontext[c].exists
    /\ LET unlinked == [dxgcontext[c] EXCEPT !.object_state = "DESTROYED",
                                             !.linked = FALSE,
                                             !.context_kref = @ - 1]
       IN  dxgcontext' = [dxgcontext EXCEPT ![c] =
               IF unlinked.context_kref = 0 THEN NoContext ELSE unlinked]
    /\ dxgdevice' = IF dxgcontext[c].device THEN kref_put_device ELSE dxgdevice
    /\ UNCHANGED <<dxgallocation, dxgresource>>
    /\ UNCHANGED notChildVars

\* dxgallocation_create: vzalloc, no owner
dxgallocation_create(a) ==
    /\ ~dxgallocation[a].exists
    /\ dxgallocation' = [dxgallocation EXCEPT ![a] =
           [NoAllocation EXCEPT !.exists = TRUE]]
    /\ UNCHANGED <<dxgdevice, dxgcontext, dxgresource>>
    /\ UNCHANGED notChildVars

\* dxgdevice_add_alloc, for an allocation that has no owner yet
dxgdevice_add_alloc(a) ==
    /\ dxgdevice.device_kref > 0
    /\ dxgallocation[a].exists
    /\ ~dxgallocation[a].linked
    /\ ~dxgallocation[a].resource_owner
    /\ ~dxgallocation[a].owner_device
    /\ dxgallocation' = [dxgallocation EXCEPT ![a].linked = TRUE,
                                              ![a].owner_device = TRUE]
    /\ dxgdevice' = kref_get_device
    /\ UNCHANGED <<dxgcontext, dxgresource>>
    /\ UNCHANGED notChildVars

\* dxgdevice_remove_alloc: unlink and kref_put, only if the entry is linked
dxgdevice_remove_alloc(a) ==
    /\ dxgallocation' = [dxgallocation EXCEPT ![a].linked = FALSE]
    /\ dxgdevice' = IF dxgallocation[a].linked THEN kref_put_device
                                               ELSE dxgdevice

\* dxgdevice_remove_alloc_safe, called for an allocation the device owns
dxgdevice_remove_alloc_safe(a) ==
    /\ dxgallocation[a].exists
    /\ dxgallocation[a].owner_device
    /\ ~dxgallocation[a].resource_owner
    /\ dxgdevice_remove_alloc(a)
    /\ UNCHANGED <<dxgcontext, dxgresource>>
    /\ UNCHANGED notChildVars

\* dxgresource_add_alloc: linked to the resource only if the resource is
\* active; resource_owner is set either way
dxgresource_add_alloc(r, a) ==
    /\ dxgresource[r].exists
    /\ dxgallocation[a].exists
    /\ ~dxgallocation[a].linked
    /\ ~dxgallocation[a].resource_owner
    /\ ~dxgallocation[a].owner_device
    /\ dxgallocation' = [dxgallocation EXCEPT ![a] =
           IF dxgresource[r].object_state = "ACTIVE"
           THEN [@ EXCEPT !.linked = TRUE, !.owner_resource = r,
                          !.resource_owner = TRUE]
           ELSE [@ EXCEPT !.resource_owner = TRUE]]
    /\ UNCHANGED <<dxgdevice, dxgcontext, dxgresource>>
    /\ UNCHANGED notChildVars

\* dxgallocation_destroy: dxgresource_remove_alloc for a resource-owned
\* allocation, else dxgdevice_remove_alloc if owner.device is set; vfree
dxgallocation_destroy(a) ==
    /\ dxgallocation[a].exists
    /\ dxgdevice' = IF /\ ~dxgallocation[a].resource_owner
                       /\ dxgallocation[a].owner_device
                       /\ dxgallocation[a].linked
                    THEN kref_put_device
                    ELSE dxgdevice
    /\ dxgallocation' = [dxgallocation EXCEPT ![a] = NoAllocation]
    /\ UNCHANGED <<dxgcontext, dxgresource>>
    /\ UNCHANGED notChildVars

\* dxgresource_create: kref_init, state ACTIVE, dxgdevice_add_resource
\* (linked, kref_get on the device)
dxgresource_create(r) ==
    /\ dxgdevice.device_kref > 0
    /\ ~dxgresource[r].exists
    /\ dxgresource' = [dxgresource EXCEPT ![r] =
           [exists |-> TRUE, resource_kref |-> 1, flags |-> 0,
            linked |-> TRUE, object_state |-> "ACTIVE"]]
    /\ dxgdevice' = kref_get_device
    /\ UNCHANGED <<dxgcontext, dxgallocation>>
    /\ UNCHANGED notChildVars

\* kref_get(&resource->resource_kref): a caller keeps the resource memory
\* across the destroy (create_local_allocations)
ResourceGet(r) ==
    /\ dxgresource[r].exists
    /\ dxgresource[r].resource_kref < MaxResourceRefs
    /\ dxgresource' = [dxgresource EXCEPT ![r].resource_kref = @ + 1]
    /\ UNCHANGED <<dxgdevice, dxgcontext, dxgallocation>>
    /\ UNCHANGED notChildVars

\* dxgresource_destroy: the first call (test_and_set_bit) destroys the
\* allocations on the resource's list and does dxgdevice_remove_resource
\* (unlink and kref_put on the device if linked); every call puts one
\* resource reference, the last one frees the resource
ResourceDestroy(r) ==
    /\ dxgresource[r].exists
    /\ LET first == dxgresource[r].flags = 0
           after == [dxgresource[r] EXCEPT
                        !.flags = 1,
                        !.linked = IF first THEN FALSE ELSE @,
                        !.resource_kref = @ - 1]
       IN  /\ dxgresource' = [dxgresource EXCEPT ![r] =
                  IF after.resource_kref = 0 THEN NoChildResource ELSE after]
           /\ dxgallocation' =
                  IF first
                  THEN [a \in AllocationIds |->
                           IF a \in ResourceAllocs(r) THEN NoAllocation
                                                      ELSE dxgallocation[a]]
                  ELSE dxgallocation
           /\ dxgdevice' = IF first /\ dxgresource[r].linked
                           THEN kref_put_device
                           ELSE dxgdevice
    /\ UNCHANGED dxgcontext
    /\ UNCHANGED notChildVars

NextChildren ==
    \/ \E c \in ContextIds : dxgcontext_create(c)
    \/ \E c \in ContextIds : dxgcontext_destroy(c)
    \/ \E a \in AllocationIds : dxgallocation_create(a)
    \/ \E a \in AllocationIds : dxgdevice_add_alloc(a)
    \/ \E a \in AllocationIds : dxgdevice_remove_alloc_safe(a)
    \/ \E r \in ResourceIds, a \in AllocationIds : dxgresource_add_alloc(r, a)
    \/ \E a \in AllocationIds : dxgallocation_destroy(a)
    \/ \E r \in ResourceIds : dxgresource_create(r)
    \/ \E r \in ResourceIds : ResourceGet(r)
    \/ \E r \in ResourceIds : ResourceDestroy(r)

\* C19: each child holds exactly one reference on its device for as long as
\* it is linked: the device's reference count is 1 plus the contexts on its
\* context list, plus the device-owned allocations on its allocation list,
\* plus the resources on its resource list, and a child that is unlinked or
\* destroyed has given its reference back exactly once (a repeated unlink
\* or destroy gives back nothing more).
C19_OneReferencePerLinkedChild ==
    /\ dxgdevice.device_kref = 1 + Cardinality(context_list_head)
                                 + Cardinality(alloc_list_head)
                                 + Cardinality(resource_list_head)
    /\ \A c \in ContextIds : dxgcontext[c].exists => dxgcontext[c].linked
    /\ \A r \in ResourceIds :
           dxgresource[r].exists => (dxgresource[r].linked <=> dxgresource[r].flags = 0)

\* C19 happens: a context is linked, a device-owned allocation was unlinked
\* and still exists, a resource was destroyed while a second reference keeps
\* its memory, and the device is back to two references.
C19_Witness ==
    /\ dxgdevice.device_kref = 2
    /\ \E c \in ContextIds : dxgcontext[c].exists /\ dxgcontext[c].linked
    /\ \E a \in AllocationIds : /\ dxgallocation[a].exists
                                /\ dxgallocation[a].owner_device
                                /\ ~dxgallocation[a].linked
    /\ \E r \in ResourceIds : /\ dxgresource[r].exists
                              /\ dxgresource[r].flags = 1
                              /\ ~dxgresource[r].linked

(***************************************************************************)
(* The handle-table lock on the teardown, registration and rollback paths  *)
(* (dxgadapter.c, dxgvmbus.c).  A path is the sequence of the steps that   *)
(* matter here, in the order the code runs them:                           *)
(*   "ht_lock" / "ht_unlock"  hmgrtable_lock / hmgrtable_unlock and        *)
(*                            dxgprocess_ht_lock_exclusive_down / _up      *)
(*   "rpc"                    a dxgvmb_send_destroy_* call or the          *)
(*                            rollback's dxgvmb_send_sync_msg_ntstatus:    *)
(*                            the thread blocks until the host answers     *)
(*   "free" "assign" "stop" "unmap"   work done between lock and unlock    *)
(***************************************************************************)
\* threads running such paths in one process
NumLockThreads == 1
\* children of each kind on a path's device or resource
MaxPathChildren == 1

LockThreads == 1..NumLockThreads

RECURSIVE Repeat(_, _)
Repeat(path, n) == IF n = 0 THEN <<>> ELSE path \o Repeat(path, n - 1)

IfStep(cond, path) == IF cond THEN path ELSE <<>>

\* dxgallocation_stop: the mapping is dropped between lock and unlock
dxgallocation_stop_steps == <<"ht_lock", "unmap", "ht_unlock">>

\* dxgallocation_free_handle that returns with the lock held
dxgallocation_free_handle_held == <<"ht_lock", "free">>

\* dxgallocation_free_handle
dxgallocation_free_handle_steps == <<"ht_lock", "free", "ht_unlock">>

\* hmgrtable_free_handle_safe: takes the lock around the one removal
hmgrtable_free_handle_safe_steps == <<"ht_lock", "free", "ht_unlock">>

\* dxgallocation_destroy: stop, unlink, free the handle, then the host call
\* if (alloc->alloc_handle.v && !alloc->resource_owner)
dxgallocation_destroy_steps(call) ==
    dxgallocation_stop_steps \o dxgallocation_free_handle_steps
    \o IfStep(call, <<"rpc">>)

\* dxgresource_free_handle: the resource's handle if valid, then the handle
\* of each of its n allocations
dxgresource_free_handle_steps(valid, n) ==
    IfStep(valid, hmgrtable_free_handle_safe_steps)
    \o Repeat(dxgallocation_free_handle_steps, n)

\* dxgresource_destroy (first call): free the handles, the host call
\* if (resource->handle.v), then dxgallocation_destroy for each of its n
\* allocations, which are resource-owned and send no call
dxgresource_destroy_steps(valid, call, n) ==
    dxgresource_free_handle_steps(valid, n)
    \o IfStep(call, <<"rpc">>)
    \o Repeat(dxgallocation_destroy_steps(FALSE), n)

\* dxgcontext_destroy: if (context->handle.v) hmgrtable_free_handle_safe
dxgcontext_destroy_steps(valid) ==
    IfStep(valid, hmgrtable_free_handle_safe_steps)

\* dxgdevice_stop: dxgallocation_stop for each allocation, then the paging
\* queues and sync objects are stopped between lock and unlock
dxgdevice_stop_steps(n) ==
    Repeat(dxgallocation_stop_steps, n) \o <<"ht_lock", "stop", "ht_unlock">>

\* dxgdevice_destroy of an ACTIVE device with n children of each kind, each
\* with its handle, and with a registered device handle or not (valid)
dxgdevice_destroy_steps(valid, n) ==
    dxgdevice_stop_steps(n)
    \o Repeat(dxgallocation_destroy_steps(TRUE), n)
    \o Repeat(dxgresource_destroy_steps(TRUE, TRUE, n), n)
    \o Repeat(dxgcontext_destroy_steps(TRUE), n)
    \o <<"ht_lock">> \o IfStep(valid, <<"free">>) \o <<"ht_unlock">>
    \o IfStep(valid, <<"rpc">>)

\* process_allocation_handles: every hmgrtable_assign_handle of the batch
\* between one lock and one unlock
process_allocation_handles_steps(n, create_resource) ==
    <<"ht_lock">> \o IfStep(create_resource, <<"assign">>)
    \o Repeat(<<"assign">>, n) \o <<"ht_unlock">>

\* create_local_allocations, cleanup with ret < 0: free the local handles,
\* the destroy call, dxgallocation_destroy for each entry (alloc_handle.v
\* was cleared: no call), dxgresource_destroy for a resource the batch
\* created (it sends its call if resource->handle.v was set: call)
RollbackSteps(n, create_resource, call) ==
    Repeat(dxgallocation_free_handle_steps, n)
    \o IfStep(create_resource, dxgresource_free_handle_steps(call, 0))
    \o <<"rpc">>
    \o Repeat(dxgallocation_destroy_steps(FALSE), n)
    \o IfStep(create_resource, dxgresource_destroy_steps(FALSE, call, 0))

\* create_local_allocations from the registration on: it succeeds, or it
\* fails (registered = the resource's handle was assigned) and rolls back
create_local_allocations_steps(n, create_resource, fails, registered) ==
    process_allocation_handles_steps(n, create_resource)
    \o IfStep(fails, RollbackSteps(n, create_resource,
                                   create_resource /\ registered))

PathChildren == 0..MaxPathChildren

TeardownPaths ==
    {dxgallocation_destroy_steps(call) : call \in BOOLEAN}
    \cup {dxgresource_destroy_steps(valid, call, n) :
              valid \in BOOLEAN, call \in BOOLEAN, n \in PathChildren}
    \cup {dxgcontext_destroy_steps(valid) : valid \in BOOLEAN}
    \cup {dxgdevice_destroy_steps(valid, n) :
              valid \in BOOLEAN, n \in PathChildren}
    \cup {create_local_allocations_steps(n, cr, fails, registered) :
              n \in 1..(MaxPathChildren + 1), cr \in BOOLEAN,
              fails \in BOOLEAN, registered \in BOOLEAN}
    \cup {RollbackSteps(n, cr, FALSE) :
              n \in 1..(MaxPathChildren + 1), cr \in BOOLEAN}

InitTableLock ==
    /\ steps = [t \in LockThreads |-> <<>>]
    /\ table_lock = 0
    /\ rpc_wait = {}

Running(t) == steps[t] # <<>> /\ t \notin rpc_wait

\* a thread enters one of the paths
PathCall(t, path) ==
    /\ steps[t] = <<>>
    /\ t \notin rpc_wait
    /\ path # <<>>
    /\ steps' = [steps EXCEPT ![t] = path]
    /\ UNCHANGED <<table_lock, rpc_wait>>
    /\ UNCHANGED notLockVars

\* hmgrtable_lock(&process->handle_table, DXGLOCK_EXCL): waits for the lock
hmgrtable_lock(t) ==
    /\ Running(t)
    /\ Head(steps[t]) = "ht_lock"
    /\ table_lock = 0
    /\ table_lock' = t
    /\ steps' = [steps EXCEPT ![t] = Tail(@)]
    /\ UNCHANGED rpc_wait
    /\ UNCHANGED notLockVars

\* hmgrtable_unlock(&process->handle_table, DXGLOCK_EXCL)
hmgrtable_unlock(t) ==
    /\ Running(t)
    /\ Head(steps[t]) = "ht_unlock"
    /\ table_lock' = 0
    /\ steps' = [steps EXCEPT ![t] = Tail(@)]
    /\ UNCHANGED rpc_wait
    /\ UNCHANGED notLockVars

\* the work between lock and unlock
TableWork(t) ==
    /\ Running(t)
    /\ Head(steps[t]) \in {"free", "assign", "stop", "unmap"}
    /\ steps' = [steps EXCEPT ![t] = Tail(@)]
    /\ UNCHANGED <<table_lock, rpc_wait>>
    /\ UNCHANGED notLockVars

\* the thread sends the command and blocks in dxgvmb_send_sync_msg
PathSendSync(t) ==
    /\ Running(t)
    /\ Head(steps[t]) = "rpc"
    /\ rpc_wait' = rpc_wait \cup {t}
    /\ steps' = [steps EXCEPT ![t] = Tail(@)]
    /\ UNCHANGED table_lock
    /\ UNCHANGED notLockVars

\* the host answers (or the send fails): dxgvmb_send_sync_msg returns
PathSendSyncReturns(t) ==
    /\ t \in rpc_wait
    /\ rpc_wait' = rpc_wait \ {t}
    /\ UNCHANGED <<steps, table_lock>>
    /\ UNCHANGED notLockVars

NextTableLock ==
    \/ \E t \in LockThreads, path \in TeardownPaths : PathCall(t, path)
    \/ \E t \in LockThreads : hmgrtable_lock(t)
    \/ \E t \in LockThreads : hmgrtable_unlock(t)
    \/ \E t \in LockThreads : TableWork(t)
    \/ \E t \in LockThreads : PathSendSync(t)
    \/ \E t \in LockThreads : PathSendSyncReturns(t)

\* C20: a thread that is blocked in a synchronous host call does not hold
\* the per-process handle-table lock, on any teardown, batch registration or
\* rollback path.
C20_NoTableLockAcrossRpc ==
    \A t \in rpc_wait : table_lock # t

\* C20 happens: a thread is blocked in a host call that its path sent after
\* having taken and released the lock, with more lock sections still to come.
C20_Witness ==
    \E t \in rpc_wait :
        /\ \E path \in TeardownPaths : \E i \in 1..Len(path) :
               /\ path[i] = "rpc"
               /\ \E j \in 1..(i - 1) : path[j] = "ht_unlock"
               /\ steps[t] = SubSeq(path, i + 1, Len(path))
        /\ \E k \in 1..Len(steps[t]) : steps[t][k] = "ht_lock"

(***************************************************************************)
(* The message codec: init_message, init_message_res (dxgvmbus.c)          *)
(***************************************************************************)
\* A size is written as <<hi, lo>>, standing for hi * 65536 + lo with
\* 0 <= lo < 65536: a u32 has hi < 65536, and the true (unwrapped) sums can
\* be told from the u32 ones.
Half == 65536
Wide(n) == <<n \div Half, n % Half>>
WideAdd(a, b) ==
    LET lo == a[2] + b[2] IN <<a[1] + b[1] + (lo \div Half), lo % Half>>
\* a * k for a small k
WideTimes(a, k) ==
    LET lo == a[2] * k IN <<a[1] * k + (lo \div Half), lo % Half>>
WideLess(a, b) == a[1] < b[1] \/ (a[1] = b[1] /\ a[2] < b[2])
\* the value stored in a u32
ToU32(a) == <<a[1] % Half, a[2]>>
\* a - b on u32
SubU32(a, b) ==
    LET lo == a[2] - b[2]
        borrow == IF lo < 0 THEN 1 ELSE 0
    IN  <<(a[1] - b[1] - borrow) % Half, lo % Half>>
\* the largest u32, less n
U32Max(n) == <<Half - 1, Half - 1 - n>>

\* sizeof(struct dxgvmb_ext_header): two u32 and a struct winluid
ExtHeaderSize == 16
VMBUSMESSAGEONSTACK == 64

\* largest of the small payload and result sizes tried
MaxCodecSize == 2

\* payload sizes: small ones, the ones around the on-stack threshold with and
\* without the header, and the largest values a u32 holds
PayloadSizes ==
    {Wide(n) : n \in (0..MaxCodecSize)
                     \cup {VMBUSMESSAGEONSTACK - ExtHeaderSize,
                           VMBUSMESSAGEONSTACK - ExtHeaderSize + 1,
                           VMBUSMESSAGEONSTACK, VMBUSMESSAGEONSTACK + 1}}
    \cup {U32Max(ExtHeaderSize), U32Max(ExtHeaderSize - 1), U32Max(0)}
CodecResultSizes == {Wide(n) : n \in (0..MaxCodecSize) \cup {8, 9}}

\* nothing built: struct dxgvmbusmsg msg = {.hdr = NULL}
NoMessage == [ret |-> 0, size |-> Wide(0), hdr |-> "NULL", msg |-> 0,
              command_offset |-> 0, channel |-> "NULL", res_size |-> Wide(0),
              res |-> Wide(0), allocated |-> Wide(0)]

\* (x + 7) & ~7 on a u32
AlignUp8(x) == LET y == ToU32(WideAdd(x, Wide(7))) IN <<y[1], y[2] - (y[2] % 8)>>

\* size <= VMBUSMESSAGEONSTACK
FitsOnStack(size) == ~WideLess(Wide(VMBUSMESSAGEONSTACK), size)

\* init_message(msg, adapter, process, size).  use_ext_header is
\* dxgglobal->vmbus_ver >= DXGK_VMBUS_INTERFACE_VERSION; hdr says where the
\* buffer is, msg is the offset of the payload from the start of the buffer.
init_message(size, use_ext_header, adapter, async_msg_enabled, vzalloc_ok) ==
    LET total == IF use_ext_header
                 THEN ToU32(WideAdd(size, Wide(ExtHeaderSize)))
                 ELSE size
        sized == [NoMessage EXCEPT !.size = total]
    IN  IF ~FitsOnStack(total) /\ ~vzalloc_ok
        THEN [sized EXCEPT !.ret = -ENOMEM]
        ELSE [sized EXCEPT
                 !.hdr = IF FitsOnStack(total) THEN "msg_on_stack" ELSE "heap",
                 !.allocated = IF FitsOnStack(total)
                               THEN Wide(VMBUSMESSAGEONSTACK) ELSE total,
                 !.msg = IF use_ext_header THEN ExtHeaderSize ELSE 0,
                 !.command_offset = IF use_ext_header THEN ExtHeaderSize ELSE 0,
                 !.channel = IF adapter /\ ~async_msg_enabled
                             THEN "adapter" ELSE "global"]

\* init_message_res(msg, adapter, process, size, result_size): the result
\* region follows the command in the one allocated buffer
init_message_res(size, result_size, use_ext_header, async_msg_enabled, vzalloc_ok) ==
    LET cmd == IF use_ext_header
               THEN ToU32(WideAdd(size, Wide(ExtHeaderSize)))
               ELSE size
        res_size == AlignUp8(result_size)
        total == ToU32(WideAdd(cmd, res_size))
        sized == [NoMessage EXCEPT !.size = cmd, !.res_size = res_size]
    IN  IF ~vzalloc_ok
        THEN [sized EXCEPT !.ret = -ENOMEM]
        ELSE [sized EXCEPT
                 !.hdr = "heap",
                 !.allocated = total,
                 !.msg = IF use_ext_header THEN ExtHeaderSize ELSE 0,
                 !.command_offset = IF use_ext_header THEN ExtHeaderSize ELSE 0,
                 !.res = cmd,
                 !.channel = IF async_msg_enabled THEN "global" ELSE "adapter"]

NothingBuilt == [fn |-> "none", size |-> Wide(0), result_size |-> Wide(0),
                 use_ext_header |-> FALSE, msg |-> NoMessage]

InitCodec == built = NothingBuilt

\* a sender builds its command with init_message
BuildMessage(size, use_ext_header, adapter, async_msg_enabled, vzalloc_ok) ==
    /\ built.fn = "none"
    /\ built' = [fn |-> "init_message", size |-> size,
                 result_size |-> Wide(0),
                 use_ext_header |-> use_ext_header,
                 msg |-> init_message(size, use_ext_header, adapter,
                                      async_msg_enabled, vzalloc_ok)]
    /\ UNCHANGED notCodecVars

\* a sender builds its command and result buffer with init_message_res
BuildMessageRes(size, result_size, use_ext_header, async_msg_enabled, vzalloc_ok) ==
    /\ built.fn = "none"
    /\ built' = [fn |-> "init_message_res", size |-> size,
                 result_size |-> result_size,
                 use_ext_header |-> use_ext_header,
                 msg |-> init_message_res(size, result_size, use_ext_header,
                                          async_msg_enabled, vzalloc_ok)]
    /\ UNCHANGED notCodecVars

\* free_message: vfree unless the buffer is msg_on_stack; the sender returns
free_message ==
    /\ built.fn # "none"
    /\ built' = NothingBuilt
    /\ UNCHANGED notCodecVars

NextCodec ==
    \/ \E size \in PayloadSizes, ext \in BOOLEAN, adapter \in BOOLEAN,
          async \in BOOLEAN, ok \in BOOLEAN :
           BuildMessage(size, ext, adapter, async, ok)
    \/ \E size \in PayloadSizes, rs \in CodecResultSizes, ext \in BOOLEAN,
          async \in BOOLEAN, ok \in BOOLEAN :
           BuildMessageRes(size, rs, ext, async, ok)
    \/ free_message

\* C21: a command built for a payload of size S with the extended header has
\* total size S + header size, its payload at the header-size offset and
\* command_offset equal to the header size, so that total size minus
\* command_offset gives S back; without the extended header the payload is at
\* offset 0 and the total size is S.
C21_BuildRoundTrip ==
    (built.fn # "none" /\ built.msg.ret = 0) =>
        IF built.use_ext_header
        THEN /\ built.msg.size = WideAdd(built.size, Wide(ExtHeaderSize))
             /\ built.msg.msg = ExtHeaderSize
             /\ built.msg.command_offset = ExtHeaderSize
             /\ SubU32(built.msg.size, Wide(built.msg.command_offset))
                    = built.size
        ELSE /\ built.msg.msg = 0
             /\ built.msg.size = built.size

(***************************************************************************)
(* The size checks at the entry of dxgvmb_send_sync_msg and                *)
(* dxgvmb_send_async_msg (dxgvmbus.c)                                      *)
(***************************************************************************)
\* how far above the packet ceiling the sizes tried go
MaxOversize == 2
\* attempts of the asynchronous send that are followed
MaxXmitTries == 2

\* sizes a caller passes (u32): small ones, the ceiling, and sizes above it
XmitSizes ==
    {0, 8, DXG_MAX_VM_BUS_PACKET_SIZE}
        \cup {DXG_MAX_VM_BUS_PACKET_SIZE + n : n \in 1..MaxOversize}

\* no call made yet
NoXmit ==
    [fn |-> "none", cmd_size |-> 0, result_size |-> 0, adapter |-> FALSE,
     pc |-> "idle", ret |-> 0, node |-> FALSE, listed |-> FALSE,
     sends |-> 0, handed |-> 0]

InitXmit == xmit = NoXmit

\* a variant that checks the command size only
sync_msg_oversize_cmd_only(cmd_size, result_size) ==
    cmd_size > DXG_MAX_VM_BUS_PACKET_SIZE

\* if (cmd_size > DXG_MAX_VM_BUS_PACKET_SIZE ||
\*     result_size > DXG_MAX_VM_BUS_PACKET_SIZE)
sync_msg_oversize(cmd_size, result_size) ==
    \/ cmd_size > DXG_MAX_VM_BUS_PACKET_SIZE
    \/ result_size > DXG_MAX_VM_BUS_PACKET_SIZE

\* if (cmd_size > DXG_MAX_VM_BUS_PACKET_SIZE)
async_msg_oversize(cmd_size) == cmd_size > DXG_MAX_VM_BUS_PACKET_SIZE

\* Entry of dxgvmb_send_sync_msg: the size checks, then kmem_cache_alloc of
\* the tracking node (which may fail).
dxgvmb_send_sync_msg(cmd_size, result_size, adapter, alloc_ok) ==
    /\ xmit.pc \in {"idle", "ret"}
    /\ xmit' =
         LET call == [NoXmit EXCEPT !.fn = "dxgvmb_send_sync_msg",
                                    !.cmd_size = cmd_size,
                                    !.result_size = result_size,
                                    !.adapter = adapter]
         IN  IF sync_msg_oversize(cmd_size, result_size)
             THEN [call EXCEPT !.pc = "ret", !.ret = -EINVAL]
             ELSE IF ~alloc_ok
             THEN [call EXCEPT !.pc = "ret", !.ret = -ENOMEM]
             ELSE [call EXCEPT !.pc = "sync_add", !.node = TRUE]
    /\ UNCHANGED notXmitVars

\* the node's fields are set and list_add_tail puts it on the pending list
XmitListAdd ==
    /\ xmit.pc = "sync_add"
    /\ xmit' = [xmit EXCEPT !.listed = TRUE, !.pc = "sync_send"]
    /\ UNCHANGED notXmitVars

\* ret = vmbus_sendpacket(channel->channel, command, cmd_size, ...); when it
\* fails the node is unlinked and freed and the error returned
XmitSyncSend(r) ==
    /\ xmit.pc = "sync_send"
    /\ xmit' =
         LET sent == [xmit EXCEPT !.sends = @ + 1, !.handed = xmit.cmd_size]
         IN  IF r # 0
             THEN [sent EXCEPT !.listed = FALSE, !.node = FALSE,
                               !.ret = r, !.pc = "ret"]
             ELSE [sent EXCEPT !.pc = "sync_wait"]
    /\ UNCHANGED notXmitVars

\* the completion arrives (process_completion_packet unlinks the node and
\* sets its status), the wait ends, the node is freed, packet->status returned
XmitSyncComplete(status) ==
    /\ xmit.pc = "sync_wait"
    /\ xmit' = [xmit EXCEPT !.listed = FALSE, !.node = FALSE,
                            !.ret = status, !.pc = "ret"]
    /\ UNCHANGED notXmitVars

\* Entry of dxgvmb_send_async_msg: the size check, then the test that the
\* channel is the global one.
dxgvmb_send_async_msg(cmd_size, adapter) ==
    /\ xmit.pc \in {"idle", "ret"}
    /\ xmit' =
         LET call == [NoXmit EXCEPT !.fn = "dxgvmb_send_async_msg",
                                    !.cmd_size = cmd_size,
                                    !.adapter = adapter]
         IN  IF async_msg_oversize(cmd_size)
             THEN [call EXCEPT !.pc = "ret", !.ret = -EINVAL]
             ELSE IF adapter
             THEN [call EXCEPT !.pc = "ret", !.ret = -EINVAL]
             ELSE [call EXCEPT !.pc = "async_send"]
    /\ UNCHANGED notXmitVars

\* one iteration of the send loop; only the first MaxXmitTries refused
\* attempts are followed
XmitAsyncSend(r) ==
    /\ xmit.pc = "async_send"
    /\ r = -EAGAIN => xmit.sends + 1 < MaxXmitTries
    /\ xmit' = [xmit EXCEPT !.sends = @ + 1, !.handed = xmit.cmd_size,
                            !.ret = r,
                            !.pc = IF r = -EAGAIN THEN "async_send" ELSE "ret"]
    /\ UNCHANGED notXmitVars

NextXmit ==
    \/ \E c \in XmitSizes, r \in XmitSizes, a \in BOOLEAN, ok \in BOOLEAN :
           dxgvmb_send_sync_msg(c, r, a, ok)
    \/ XmitListAdd
    \/ \E r \in SendResults : XmitSyncSend(r)
    \/ \E status \in {0, -EOVERFLOW} : XmitSyncComplete(status)
    \/ \E c \in XmitSizes, a \in BOOLEAN : dxgvmb_send_async_msg(c, a)
    \/ \E r \in AsyncSendResults : XmitAsyncSend(r)

\* C22: a call of dxgvmb_send_sync_msg whose command size or result size is
\* above DXG_MAX_VM_BUS_PACKET_SIZE, and a call of dxgvmb_send_async_msg whose
\* command size is above it, has returned -EINVAL with no tracking node
\* allocated or put on the pending list and with no vmbus_sendpacket attempt;
\* nothing larger than the ceiling is ever handed to the transport.
C22_OversizeFailsBeforeSend ==
    /\ ( \/ /\ xmit.fn = "dxgvmb_send_sync_msg"
            /\ \/ xmit.cmd_size > DXG_MAX_VM_BUS_PACKET_SIZE
               \/ xmit.result_size > DXG_MAX_VM_BUS_PACKET_SIZE
         \/ /\ xmit.fn = "dxgvmb_send_async_msg"
            /\ xmit.cmd_size > DXG_MAX_VM_BUS_PACKET_SIZE )
       => /\ xmit.pc = "ret"
          /\ xmit.ret = -EINVAL
          /\ ~xmit.node
          /\ ~xmit.listed
          /\ xmit.sends = 0
    /\ xmit.handed <= DXG_MAX_VM_BUS_PACKET_SIZE
    /\ (xmit.node \/ xmit.listed \/ xmit.sends > 0) =>
           /\ xmit.cmd_size <= DXG_MAX_VM_BUS_PACKET_SIZE
           /\ xmit.result_size <= DXG_MAX_VM_BUS_PACKET_SIZE

\* a synchronous call with a command that fits and a result buffer one byte
\* above the ceiling has returned -EINVAL before anything was registered or
\* sent
C22_Witness ==
    /\ xmit.fn = "dxgvmb_send_sync_msg"
    /\ xmit.cmd_size = 8
    /\ xmit.result_size = DXG_MAX_VM_BUS_PACKET_SIZE + 1
    /\ xmit.pc = "ret" /\ xmit.ret = -EINVAL
    /\ ~xmit.node /\ ~xmit.listed /\ xmit.sends = 0

(***************************************************************************)
(* The size budget of dxgvmb_send_create_allocation (dxgvmbus.c)           *)
(***************************************************************************)
\* largest of the small allocation counts tried
MaxAllocCount == 2

\* args->alloc_count (u32): small counts, 2^30 and the largest u32
AllocCounts ==
    {Wide(n) : n \in 0..MaxAllocCount} \cup {<<Half \div 4, 0>>, U32Max(0)}

\* a private data size (u32): none, small, just under the ceiling, the ceiling
PrivSizes ==
    {0, 8, DXG_MAX_VM_BUS_PACKET_SIZE - 1, DXG_MAX_VM_BUS_PACKET_SIZE}

\* sizeof of the structures of the command and of its result (they are
\* declared in dxgvmbus.h): hdr = struct dxgkvmb_command_createallocation,
\* info = struct dxgkvmb_command_createallocation_allocinfo, ret = struct
\* dxgkvmb_command_createallocation_return, info_ret = struct
\* dxgkvmb_command_allocinfo_return.  Two layouts are tried.
Layouts ==
    {[hdr |-> 64, info |-> 12, ret |-> 40, info_ret |-> 16],
     [hdr |-> 72, info |-> 16, ret |-> 48, info_ret |-> 24]}

\* n > DXG_MAX_VM_BUS_PACKET_SIZE, for a size held in two halves
OverCeiling(n) == WideLess(Wide(DXG_MAX_VM_BUS_PACKET_SIZE), n)

\* The loop over alloc_info[], every entry carrying alloc_priv bytes: it
\* leaves with -EOVERFLOW at an entry of DXG_MAX_VM_BUS_PACKET_SIZE bytes or
\* more and at the first entry where the running sum reaches
\* DXG_MAX_VM_BUS_PACKET_SIZE, that is when there are at least
\* ceil(DXG_MAX_VM_BUS_PACKET_SIZE / alloc_priv) entries.  (The running sum is
\* below 2 * DXG_MAX_VM_BUS_PACKET_SIZE when it is tested: it cannot wrap.)
PrivSumOverflows(alloc_count, alloc_priv) ==
    /\ alloc_priv > 0
    /\ ~WideLess(alloc_count,
                 Wide((DXG_MAX_VM_BUS_PACKET_SIZE + alloc_priv - 1)
                          \div alloc_priv))

\* priv_drv_data_size after the loop, when the loop did not leave early
PrivSum(alloc_count, alloc_priv) ==
    IF alloc_priv = 0 THEN 0 ELSE alloc_count[2] * alloc_priv

\* The size of the request as an integer: sizeof(command) + alloc_count *
\* sizeof(allocinfo) + private_runtime_data_size + the global and the
\* per-allocation private driver data.  Exceeds tells whether it is above
\* the ceiling (the sum itself is formed only when the private data is small).
RequestExceeds(a) ==
    \/ PrivSumOverflows(a.alloc_count, a.alloc_priv)
    \/ OverCeiling(
         WideAdd(WideAdd(Wide(a.layout.hdr),
                         WideTimes(a.alloc_count, a.layout.info)),
                 Wide(a.private_runtime_data_size + a.priv_drv_data_size
                      + PrivSum(a.alloc_count, a.alloc_priv))))

\* cmd_size = sizeof(struct dxgkvmb_command_createallocation) +
\*     args->alloc_count * sizeof(struct ..._allocinfo) +
\*     args->private_runtime_data_size + priv_drv_data_size;   (u32 cmd_size)
CmdSize(a) ==
    ToU32(WideAdd(WideAdd(Wide(a.layout.hdr),
                          WideTimes(a.alloc_count, a.layout.info)),
                  Wide(a.private_runtime_data_size + a.priv_drv_data_size
                       + PrivSum(a.alloc_count, a.alloc_priv))))

\* result_size = sizeof(struct ..._return) + (args->alloc_count - 1) *
\*     sizeof(struct dxgkvmb_command_allocinfo_return) + priv_drv_data_size;
CreateResultSize(a) ==
    ToU32(WideAdd(WideAdd(Wide(a.layout.ret),
                          WideTimes(SubU32(a.alloc_count, Wide(1)),
                                    a.layout.info_ret)),
                  Wide(PrivSum(a.alloc_count, a.alloc_priv))))

NoCreate ==
    [alloc_count |-> Wide(0), alloc_priv |-> 0,
     private_runtime_data_size |-> 0, priv_drv_data_size |-> 0,
     layout |-> [hdr |-> 64, info |-> 12, ret |-> 40, info_ret |-> 16],
     use_ext_header |-> FALSE,
     pc |-> "idle", ret |-> 0, cmd_size |-> Wide(0), result_size |-> Wide(0),
     msg_size |-> Wide(0), sent |-> FALSE]

InitCreate == create = NoCreate

\* dxgvmb_send_create_allocation from its entry to the point where the
\* command is handed to dxgvmb_send_sync_msg: the checks of the caller's
\* sizes, the loop, vzalloc of the result, the check of cmd_size,
\* init_message, and the size checks at the entry of dxgvmb_send_sync_msg.
\* n is args->alloc_count, p the size of each alloc_info[i]'s private driver
\* data, rt args->private_runtime_data_size, g args->priv_drv_data_size.
dxgvmb_send_create_allocation(n, p, rt, g, l, x, vzalloc_ok) ==
    /\ create.pc = "idle"
    /\ create' =
         LET a == [NoCreate EXCEPT !.alloc_count = n, !.alloc_priv = p,
                                   !.private_runtime_data_size = rt,
                                   !.priv_drv_data_size = g, !.layout = l,
                                   !.use_ext_header = x, !.pc = "ret"]
             cmd_size == CmdSize(a)
             result_size == CreateResultSize(a)
             msg == init_message(cmd_size, x, TRUE, FALSE, vzalloc_ok)
         IN  IF \/ rt >= DXG_MAX_VM_BUS_PACKET_SIZE
                \/ g >= DXG_MAX_VM_BUS_PACKET_SIZE
             THEN [a EXCEPT !.ret = -EOVERFLOW]
             ELSE IF PrivSumOverflows(n, p)
             THEN [a EXCEPT !.ret = -EOVERFLOW]
             ELSE IF ~vzalloc_ok
             THEN [a EXCEPT !.ret = -ENOMEM, !.result_size = result_size]
             ELSE IF OverCeiling(cmd_size)
             THEN [a EXCEPT !.ret = -EOVERFLOW, !.cmd_size = cmd_size,
                            !.result_size = result_size]
             ELSE IF msg.ret # 0
             THEN [a EXCEPT !.ret = msg.ret, !.cmd_size = cmd_size,
                            !.result_size = result_size]
             ELSE IF OverCeiling(msg.size) \/ OverCeiling(result_size)
             THEN [a EXCEPT !.ret = -EINVAL, !.cmd_size = cmd_size,
                            !.result_size = result_size,
                            !.msg_size = msg.size]
             ELSE [a EXCEPT !.pc = "send", !.cmd_size = cmd_size,
                            !.result_size = result_size,
                            !.msg_size = msg.size, !.sent = TRUE]
    /\ UNCHANGED notCreateVars

\* the host call returns (its status, or the transport's error) and with it
\* the function
CreateSendReturns(r) ==
    /\ create.pc = "send"
    /\ create' = [create EXCEPT !.pc = "ret", !.ret = r]
    /\ UNCHANGED notCreateVars

NextCreate ==
    \/ \E n \in AllocCounts, p \in PrivSizes, rt \in PrivSizes,
          g \in PrivSizes, l \in Layouts, x \in BOOLEAN, ok \in BOOLEAN :
           dxgvmb_send_create_allocation(n, p, rt, g, l, x, ok)
    \/ \E r \in {0, -EINVAL} : CreateSendReturns(r)

\* C23: whenever the size of the request, as an integer (command structure +
\* alloc_count entries + runtime private data + global and per-allocation
\* private driver data), is above DXG_MAX_VM_BUS_PACKET_SIZE, the call has
\* not contacted the host and, unless an allocation of memory failed first,
\* has returned -EOVERFLOW; this for every alloc_count and all sizes.
C23_OversizedBatchRejected ==
    (create.pc # "idle" /\ RequestExceeds(create)) =>
        /\ ~create.sent
        /\ create.pc = "ret"
        /\ create.ret \in {-EOVERFLOW, -ENOMEM}

(***************************************************************************)
(* The translation of the host's status: ntstatus2int and its callers      *)
(* (dxgvmbus.c)                                                            *)
(***************************************************************************)
EPERM == 1
ENOENT == 2
EBADF == 9
EACCES == 13
EEXIST == 17
EPROTOTYPE == 91
EOPNOTSUPP == 95
EINPROGRESS == 115

\* largest of the non-negative status values tried
MaxSuccessStatus == 2

\* the failure codes ntstatus2int names
NamedFailures ==
    {"STATUS_OBJECT_NAME_COLLISION", "STATUS_NO_MEMORY",
     "STATUS_INVALID_PARAMETER", "STATUS_OBJECT_NAME_INVALID",
     "STATUS_OBJECT_NAME_NOT_FOUND", "STATUS_TIMEOUT",
     "STATUS_BUFFER_TOO_SMALL", "STATUS_DEVICE_REMOVED",
     "STATUS_ACCESS_DENIED", "STATUS_NOT_SUPPORTED",
     "STATUS_ILLEGAL_INSTRUCTION", "STATUS_INVALID_HANDLE",
     "STATUS_GRAPHICS_ALLOCATION_BUSY", "STATUS_OBJECT_TYPE_MISMATCH",
     "STATUS_NOT_IMPLEMENTED"}

\* failure codes the switch does not name
OtherFailures == {"STATUS_DISK_FULL", "STATUS_UNSUCCESSFUL"}

\* struct ntstatus: a non-negative value v (a success), or a failure code
\* (a negative value), written by its name
HostStatuses ==
    {<<"success", v>> : v \in 0..MaxSuccessStatus}
        \cup {<<"failure", c>> : c \in NamedFailures \cup OtherFailures}

\* NT_SUCCESS(status): the status is not negative
NT_SUCCESS(status) == status[1] = "success"

\* a variant without the case of STATUS_NOT_IMPLEMENTED
ntstatus2int_no_not_implemented(status) ==
    IF NT_SUCCESS(status) THEN status[2]
    ELSE CASE status[2] = "STATUS_OBJECT_NAME_COLLISION" -> -EEXIST
           [] status[2] = "STATUS_NO_MEMORY" -> -ENOMEM
           [] status[2] = "STATUS_INVALID_PARAMETER" -> -EINVAL
           [] status[2] = "STATUS_OBJECT_NAME_INVALID" -> -ENOENT
           [] status[2] = "STATUS_OBJECT_NAME_NOT_FOUND" -> -ENOENT
           [] status[2] = "STATUS_TIMEOUT" -> -EAGAIN
           [] status[2] = "STATUS_BUFFER_TOO_SMALL" -> -EOVERFLOW
           [] status[2] = "STATUS_DEVICE_REMOVED" -> -ENODEV
           [] status[2] = "STATUS_ACCESS_DENIED" -> -EACCES
           [] status[2] = "STATUS_NOT_SUPPORTED" -> -EPERM
           [] status[2] = "STATUS_ILLEGAL_INSTRUCTION" -> -EOPNOTSUPP
           [] status[2] = "STATUS_INVALID_HANDLE" -> -EBADF
           [] status[2] = "STATUS_GRAPHICS_ALLOCATION_BUSY" -> -EINPROGRESS
           [] status[2] = "STATUS_OBJECT_TYPE_MISMATCH" -> -EPROTOTYPE
           [] OTHER -> -EINVAL

\* int ntstatus2int(struct ntstatus status)
ntstatus2int(status) ==
    IF NT_SUCCESS(status) THEN status[2]
    ELSE CASE status[2] = "STATUS_OBJECT_NAME_COLLISION" -> -EEXIST
           [] status[2] = "STATUS_NO_MEMORY" -> -ENOMEM
           [] status[2] = "STATUS_INVALID_PARAMETER" -> -EINVAL
           [] status[2] = "STATUS_OBJECT_NAME_INVALID" -> -ENOENT
           [] status[2] = "STATUS_OBJECT_NAME_NOT_FOUND" -> -ENOENT
           [] status[2] = "STATUS_TIMEOUT" -> -EAGAIN
           [] status[2] = "STATUS_BUFFER_TOO_SMALL" -> -EOVERFLOW
           [] status[2] = "STATUS_DEVICE_REMOVED" -> -ENODEV
           [] status[2] = "STATUS_ACCESS_DENIED" -> -EACCES
           [] status[2] = "STATUS_NOT_SUPPORTED" -> -EPERM
           [] status[2] = "STATUS_ILLEGAL_INSTRUCTION" -> -EOPNOTSUPP
           [] status[2] = "STATUS_INVALID_HANDLE" -> -EBADF
           [] status[2] = "STATUS_GRAPHICS_ALLOCATION_BUSY" -> -EINPROGRESS
           [] status[2] = "STATUS_OBJECT_TYPE_MISMATCH" -> -EPROTOTYPE
           [] status[2] = "STATUS_NOT_IMPLEMENTED" -> -EPERM
           [] OTHER -> -EINVAL

\* ret = dxgvmb_send_sync_msg(channel, command, cmd_size, &status,
\*                            sizeof(status));
\* if (ret >= 0) ret = ntstatus2int(status);
dxgvmb_send_sync_msg_ntstatus(send_ret, status) ==
    IF send_ret >= 0 THEN ntstatus2int(status) ELSE send_ret

\* dxgvmb_send_open_adapter, dxgvmb_send_get_stdalloc_data and (with the
\* extended header) dxgvmb_send_query_adapter_info:
\* ret = dxgvmb_send_sync_msg(...); if (ret < 0) goto cleanup;
\* ret = ntstatus2int(result.status);
TranslateResultStatus(send_ret, status) ==
    IF send_ret < 0 THEN send_ret ELSE ntstatus2int(status)

\* the functions that translate a host status
TranslatingCalls ==
    {"dxgvmb_send_sync_msg_ntstatus", "dxgvmb_send_open_adapter",
     "dxgvmb_send_get_stdalloc_data", "dxgvmb_send_query_adapter_info"}

\* what dxgvmb_send_sync_msg returns: 0, or an error of its own
SyncMsgResults == {0, -EINVAL, -ENOMEM, -EOVERFLOW, -ENODEV}

NoTranslation ==
    [fn |-> "none", send_ret |-> 0, status |-> <<"success", 0>>, ret |-> 0]

InitStatus == translated = NoTranslation

\* a call through dxgvmb_send_sync_msg_ntstatus
SendSyncMsgNtstatus(send_ret, status) ==
    /\ translated' =
         [fn |-> "dxgvmb_send_sync_msg_ntstatus", send_ret |-> send_ret,
          status |-> status,
          ret |-> dxgvmb_send_sync_msg_ntstatus(send_ret, status)]
    /\ UNCHANGED notStatusVars

\* a call of one of the functions that read the status from their result
SendAndTranslate(fn, send_ret, status) ==
    /\ fn # "dxgvmb_send_sync_msg_ntstatus"
    /\ translated' =
         [fn |-> fn, send_ret |-> send_ret, status |-> status,
          ret |-> TranslateResultStatus(send_ret, status)]
    /\ UNCHANGED notStatusVars

NextStatus ==
    \/ \E r \in SyncMsgResults, st \in HostStatuses :
           SendSyncMsgNtstatus(r, st)
    \/ \E fn \in TranslatingCalls, r \in SyncMsgResults, st \in HostStatuses :
           SendAndTranslate(fn, r, st)

\* the table of the translation, failure code -> error
StatusTable ==
    [c \in NamedFailures \cup OtherFailures |->
        CASE c = "STATUS_OBJECT_NAME_COLLISION" -> EEXIST
          [] c = "STATUS_NO_MEMORY" -> ENOMEM
          [] c = "STATUS_INVALID_PARAMETER" -> EINVAL
          [] c \in {"STATUS_OBJECT_NAME_NOT_FOUND",
                    "STATUS_OBJECT_NAME_INVALID"} -> ENOENT
          [] c = "STATUS_TIMEOUT" -> EAGAIN
          [] c = "STATUS_BUFFER_TOO_SMALL" -> EOVERFLOW
          [] c = "STATUS_DEVICE_REMOVED" -> ENODEV
          [] c = "STATUS_ACCESS_DENIED" -> EACCES
          [] c \in {"STATUS_NOT_SUPPORTED", "STATUS_NOT_IMPLEMENTED"} -> EPERM
          [] c = "STATUS_ILLEGAL_INSTRUCTION" -> EOPNOTSUPP
          [] c = "STATUS_INVALID_HANDLE" -> EBADF
          [] c = "STATUS_GRAPHICS_ALLOCATION_BUSY" -> EINPROGRESS
          [] c = "STATUS_OBJECT_TYPE_MISMATCH" -> EPROTOTYPE
          [] OTHER -> EINVAL]

\* C24: in every function that translates a host status, when the message
\* was delivered the value returned is the one the table gives for a failure
\* status (name collision -> EEXIST, no memory -> ENOMEM, invalid parameter
\* -> EINVAL, name not found / invalid -> ENOENT, timeout -> EAGAIN, buffer
\* too small -> EOVERFLOW, device removed -> ENODEV, access denied -> EACCES,
\* not supported and not implemented -> EPERM, illegal instruction ->
\* EOPNOTSUPP, invalid handle -> EBADF, allocation busy -> EINPROGRESS, type
\* mismatch -> EPROTOTYPE, any other failure -> EINVAL), negated; it is
\* negative exactly when the host status is a failure; and the translation
\* is the same in every such function.
C24_StatusTranslation ==
    (translated.fn # "none" /\ translated.send_ret >= 0) =>
        /\ translated.status[1] = "failure" =>
               translated.ret = -StatusTable[translated.status[2]]
        /\ (translated.ret < 0) <=> (translated.status[1] = "failure")
        /\ translated.ret = ntstatus2int(translated.status)

\* dxgvmb_send_open_adapter received STATUS_NOT_IMPLEMENTED from the host and
\* returned -EPERM
C24_Witness ==
    /\ translated.fn = "dxgvmb_send_open_adapter"
    /\ translated.send_ret = 0
    /\ translated.status = <<"failure", "STATUS_NOT_IMPLEMENTED">>
    /\ translated.ret = -EPERM

(***************************************************************************)
(* Completions that match no pending request (dxgvmbus.c)                  *)
(***************************************************************************)
\* stray completions followed in one run
MaxStrays == 1

InitStray == stray = [count |-> 0, pending |-> {}]

\* dxgvmbuschannel_receive is handed a completion whose transaction id is
\* carried by no node of the pending list
ReceiveStray(id, len) ==
    /\ id \notin PendingIds
    /\ stray.count < MaxStrays
    /\ dxgvmbuschannel_receive(
           [type |-> "VM_PKT_COMP", trans_id |-> id, len |-> len])
    /\ stray' = [count |-> stray.count + 1, pending |-> host_pending]
    /\ UNCHANGED <<spc, sret, packet_request_id, packet_cache_used,
                   host_pending, host_replied>>
    /\ UNCHANGED notChanStrayVars

NextStray ==
    \/ \E t \in Callers, r \in 0..MaxResultSize :
           SendSyncCall(t, 8, r, TRUE)
    \/ \E t \in Callers : SendSyncAssignId(t)
    \/ \E t \in Callers : SendSyncListAdd(t)
    \/ \E t \in Callers : SendSyncSend(t, 0)
    \/ \E t \in Callers : SendSyncWait(t)
    \/ \E id \in 1..MaxRequests, len \in 0..MaxPayload : HostCompletion(id, len)
    \/ \E id \in 0..MaxRequests, len \in {0, MaxPayload} : ReceiveStray(id, len)

\* the requests the host has answered have been delivered: the waiter of
\* each has been signalled
AnsweredAreDelivered ==
    \A t \in Callers :
        (spc[t] = "ss_wait" /\ packet[t].request_id \notin host_pending)
            => packet[t].wait > 0

\* C25: a completion whose transaction id matches no pending request leaves
\* the pending list, every request's node (status, completion) and result
\* buffer and every caller's position and return value as they were; the
\* receive path goes on working: with such completions arriving, every
\* request the host answers is still delivered to its waiter.
C25_StrayCompletionHarmless ==
    /\ [][stray'.count # stray.count =>
            UNCHANGED <<packet_list, packet, buffer, spc, sret,
                        packet_request_id, packet_cache_used>>]_vars
    /\ []AnsweredAreDelivered

\* a stray completion arrived while a request was waiting for its answer;
\* the answer came afterwards and the caller returned with it
C25_Witness ==
    /\ stray.count > 0
    /\ \E t \in Callers :
           /\ packet[t].request_id \in stray.pending
           /\ Answered(t)
           /\ spc[t] = "ss_ret" /\ sret[t] = 0
           /\ packet[t].buffer_length > 0
           /\ buffer[t] = Payload(packet[t].request_id, packet[t].buffer_length)

(***************************************************************************)
(* dxgvmbuschannel_init and dxgvmbuschannel_destroy (dxgvmbus.c)           *)
(***************************************************************************)
\* channels (the global one and those of adapters)
NumChannels == 2
\* calls of dxgvmbuschannel_destroy made on one channel
MaxChannelDestroys == 3

ChannelIds == 1..NumChannels

\* struct dxgvmbuschannel in zeroed memory: packet_cache and channel are NULL
NewChannel ==
    [init |-> "none", packet_cache |-> FALSE, channel |-> FALSE,
     created |-> 0, destroyed |-> 0, opened |-> 0, closed |-> 0,
     destroy_calls |-> 0]

InitLife == channels = [c \in ChannelIds |-> NewChannel]

\* dxgvmbuschannel_init(ch, hdev); r is what happens inside: the pool cannot
\* be created, vmbus_open fails, or all succeeds
channel_init(ch, r) ==
    IF r = "nocache"
    THEN [ch EXCEPT !.init = r]
    ELSE IF r = "openfail"
    THEN [ch EXCEPT !.init = r, !.packet_cache = TRUE, !.created = @ + 1]
    ELSE [ch EXCEPT !.init = r, !.packet_cache = TRUE, !.created = @ + 1,
                    !.channel = TRUE, !.opened = @ + 1]

\* kmem_cache_destroy(s): nothing is done for a NULL cache
kmem_cache_destroy(ch) ==
    IF ch.packet_cache THEN [ch EXCEPT !.destroyed = @ + 1] ELSE ch

\* a variant that leaves ch->channel set after closing it
channel_destroy_keeps_channel(ch) ==
    LET freed == [kmem_cache_destroy(ch) EXCEPT !.packet_cache = FALSE]
    IN  IF freed.channel
        THEN [freed EXCEPT !.closed = @ + 1, !.destroy_calls = @ + 1]
        ELSE [freed EXCEPT !.destroy_calls = @ + 1]

\* kmem_cache_destroy(ch->packet_cache); ch->packet_cache = NULL;
\* if (ch->channel) { vmbus_close(ch->channel); ch->channel = NULL; }
channel_destroy(ch) ==
    LET freed == [kmem_cache_destroy(ch) EXCEPT !.packet_cache = FALSE]
    IN  IF freed.channel
        THEN [freed EXCEPT !.closed = @ + 1, !.channel = FALSE,
                           !.destroy_calls = @ + 1]
        ELSE [freed EXCEPT !.destroy_calls = @ + 1]

ChannelInit(c, r) ==
    /\ channels[c].init = "none"
    /\ channels[c].destroy_calls = 0
    /\ channels' = [channels EXCEPT ![c] = channel_init(@, r)]
    /\ UNCHANGED notLifeVars

ChannelDestroy(c) ==
    /\ channels[c].init # "none"
    /\ channels[c].destroy_calls < MaxChannelDestroys
    /\ channels' = [channels EXCEPT ![c] = channel_destroy(@)]
    /\ UNCHANGED notLifeVars

NextLife ==
    \/ \E c \in ChannelIds, r \in ChannelInitResults : ChannelInit(c, r)
    \/ \E c \in ChannelIds : ChannelDestroy(c)

\* C26: for any number of dxgvmbuschannel_destroy calls after a successful or
\* a failed dxgvmbuschannel_init, the pool is destroyed at most once and only
\* if it was created, the vmbus channel is closed at most once and only if
\* it was opened; from the first call on both are released and the fields
\* are NULL, so that a further call changes nothing.
C26_DestroyIdempotent ==
    \A c \in ChannelIds :
        LET ch == channels[c] IN
        /\ ch.destroyed <= ch.created /\ ch.created <= 1
        /\ ch.closed <= ch.opened /\ ch.opened <= 1
        /\ ch.destroy_calls >= 1 =>
               /\ ch.destroyed = ch.created
               /\ ch.closed = ch.opened
               /\ ~ch.packet_cache
               /\ ~ch.channel

\* one channel whose vmbus_open failed and one that was opened have each been
\* destroyed more than once
C26_Witness ==
    \E c, d \in ChannelIds :
        /\ channels[c].init = "openfail" /\ channels[c].destroy_calls >= 2
        /\ channels[c].destroyed = 1 /\ channels[c].closed = 0
        /\ channels[d].init = "ok" /\ channels[d].destroy_calls >= 2
        /\ channels[d].destroyed = 1 /\ channels[d].closed = 1

(***************************************************************************)
(* dxgsharedresource_add_resource / dxgsharedresource_remove_resource      *)
(* (dxgadapter.c)                                                          *)
(***************************************************************************)
\* threads linking and unlinking
NumSharers == 2
\* resources opened from the one shared resource
NumSharedResources == 1

Sharers == 1..NumSharers
SharedResources == 1..NumSharedResources

\* dxgsharedresource_add_resource, statement by statement
dxgsharedresource_add_resource_steps ==
    <<"down_write", "list_add_tail", "kref_get_shared", "kref_get_resource",
      "set_owner", "up_write">>

\* a variant that clears shared_owner after releasing the lock
remove_resource_steps_owner_unlocked ==
    <<"down_write", "if_linked", "list_del", "kref_put_shared",
      "kref_put_resource", "up_write", "clear_owner">>

\* dxgsharedresource_remove_resource, statement by statement; if_linked is
\* the test of shared_resource_list_entry.next
dxgsharedresource_remove_resource_steps ==
    <<"down_write", "if_linked", "list_del", "kref_put_shared",
      "clear_owner", "kref_put_resource", "up_write">>

\* dxgresource_destroy, the part about the shared resource:
\* shared_resource = resource->shared_owner; if (shared_resource) { ... }
dxgresource_destroy_shared_steps == <<"read_owner">>

\* ... dxgsharedresource_remove_resource(shared_resource, resource);
\*     resource->shared_owner = NULL;
AfterOwnerRead ==
    dxgsharedresource_remove_resource_steps \o <<"clear_owner">>

\* a resource as dxgresource_create leaves it, and the shared resource as
\* dxgsharedresource_create leaves it: one reference each
NewSharedState ==
    [lock |-> 0,
     sresource_kref |-> 1,
     linked |-> [r \in SharedResources |-> FALSE],
     shared_owner |-> [r \in SharedResources |-> FALSE],
     resource_kref |-> [r \in SharedResources |-> 1],
     added |-> [r \in SharedResources |-> FALSE],
     destroyed |-> [r \in SharedResources |-> FALSE],
     noop_removes |-> 0,
     steps |-> [t \in Sharers |-> << >>],
     res |-> [t \in Sharers |-> 1]]

InitShared == shared = NewSharedState

\* a thread calls dxgsharedresource_add_resource for a resource that was
\* not given to the shared resource before
SharedAddCall(t, r) ==
    /\ shared.steps[t] = << >>
    /\ ~shared.added[r]
    /\ shared' = [shared EXCEPT
                     !.steps[t] = dxgsharedresource_add_resource_steps,
                     !.res[t] = r, !.added[r] = TRUE]
    /\ UNCHANGED notSharedVars

\* a thread calls dxgsharedresource_remove_resource
SharedRemoveCall(t, r) ==
    /\ shared.steps[t] = << >>
    /\ shared' = [shared EXCEPT
                     !.steps[t] = dxgsharedresource_remove_resource_steps,
                     !.res[t] = r]
    /\ UNCHANGED notSharedVars

\* a thread is the first to call dxgresource_destroy for a resource
\* (test_and_set_bit(0, &resource->flags) returned 0)
SharedDestroyCall(t, r) ==
    /\ shared.steps[t] = << >>
    /\ ~shared.destroyed[r]
    /\ shared' = [shared EXCEPT
                     !.steps[t] = dxgresource_destroy_shared_steps,
                     !.res[t] = r, !.destroyed[r] = TRUE]
    /\ UNCHANGED notSharedVars

\* the next statement of a thread's call
SharedStep(t) ==
    /\ shared.steps[t] # << >>
    /\ LET st == Head(shared.steps[t])
           rest == Tail(shared.steps[t])
           r == shared.res[t]
           done == [shared EXCEPT !.steps[t] = rest]
       IN  CASE st = "down_write" ->
                  /\ shared.lock = 0
                  /\ shared' = [done EXCEPT !.lock = t]
             [] st = "up_write" ->
                  shared' = [done EXCEPT !.lock = 0]
             [] st = "list_add_tail" ->
                  shared' = [done EXCEPT !.linked[r] = TRUE]
             [] st = "kref_get_shared" ->
                  shared' = [done EXCEPT !.sresource_kref = @ + 1]
             [] st = "kref_get_resource" ->
                  shared' = [done EXCEPT !.resource_kref[r] = @ + 1]
             [] st = "set_owner" ->
                  shared' = [done EXCEPT !.shared_owner[r] = TRUE]
             [] st = "if_linked" ->
                  shared' = IF shared.linked[r]
                            THEN done
                            ELSE [shared EXCEPT !.steps[t] = <<"up_write">>,
                                                !.noop_removes = 1]
             [] st = "list_del" ->
                  shared' = [done EXCEPT !.linked[r] = FALSE]
             [] st = "kref_put_shared" ->
                  shared' = [done EXCEPT !.sresource_kref = @ - 1]
             [] st = "clear_owner" ->
                  shared' = [done EXCEPT !.shared_owner[r] = FALSE]
             [] st = "kref_put_resource" ->
                  shared' = [done EXCEPT !.resource_kref[r] = @ - 1]
             [] st = "read_owner" ->
                  shared' = IF shared.shared_owner[r]
                            THEN [shared EXCEPT !.steps[t] = AfterOwnerRead]
                            ELSE done
    /\ UNCHANGED notSharedVars

NextShared ==
    \/ \E t \in Sharers, r \in SharedResources : SharedAddCall(t, r)
    \/ \E t \in Sharers, r \in SharedResources : SharedRemoveCall(t, r)
    \/ \E t \in Sharers, r \in SharedResources : SharedDestroyCall(t, r)
    \/ \E t \in Sharers : SharedStep(t)

\* the resources on the shared resource's list
LinkedResources == {r \in SharedResources : shared.linked[r]}

\* C27: whenever adapter->shared_resource_list_lock is not held, the three
\* parts of the link agree for every resource: it is on the shared
\* resource's list exactly when its shared_owner is set, it then holds one
\* more reference on itself, and the shared resource holds one reference per
\* linked resource beyond its own; so an add raised both counts by one, a
\* remove lowered both by one, a remove of a resource that is not linked
\* changed nothing, and add followed by remove restored both counts.
C27_SharedLinkAtomic ==
    shared.lock = 0 =>
        /\ shared.sresource_kref = 1 + Cardinality(LinkedResources)
        /\ \A r \in SharedResources :
               /\ shared.shared_owner[r] <=> shared.linked[r]
               /\ shared.resource_kref[r] = IF shared.linked[r] THEN 2 ELSE 1

\* a resource was added and removed again, and a further remove found it
\* not linked: both counts are back at their values before the add
C27_Witness ==
    /\ shared.lock = 0
    /\ \A t \in Sharers : shared.steps[t] = << >>
    /\ shared.noop_removes = 1
    /\ \E r \in SharedResources :
           /\ shared.added[r] /\ ~shared.linked[r]
           /\ ~shared.shared_owner[r]
           /\ shared.resource_kref[r] = 1
    /\ shared.sresource_kref = 1

(***************************************************************************)
(* dxgresource_destroy and the allocations of the resource (dxgadapter.c)  *)
(***************************************************************************)
\* allocations that can be given to the resource
NumOwnedAllocs == 2
\* calls of dxgresource_destroy on the resource
MaxOwnedDestroys == 2

OwnedAllocs == 1..NumOwnedAllocs

\* no struct dxgallocation yet
NoOwnedAlloc ==
    [mem |-> "none", linked |-> FALSE, resource_owner |-> FALSE,
     handle_valid |-> FALSE]

\* the resource after dxgresource_create and the registration of its
\* handle, and no allocation
InitOwned ==
    owned = [flags |-> 0, handle_valid |-> TRUE,
             object_state |-> "ACTIVE", add_ret |-> 0,
             alloc |-> [a \in OwnedAllocs |-> NoOwnedAlloc],
             table |-> {<<"resource", 0>>},
             destroy_calls |-> 0,
             on_list |-> {}]

\* alloc_list_head of the resource
OwnedList(st) == {a \in OwnedAllocs : st.alloc[a].linked}

\* dxgallocation_free_handle(alloc)
owned_free_handle(st, a) ==
    IF st.alloc[a].handle_valid
    THEN [st EXCEPT !.table = @ \ {<<"allocation", a>>},
                    !.alloc[a].handle_valid = FALSE]
    ELSE st

\* dxgresource_free_handle(resource): the resource's handle, then the
\* handle of every allocation on its list
RECURSIVE owned_free_handles(_, _)
owned_free_handles(st, todo) ==
    IF todo = {} THEN st
    ELSE LET a == CHOOSE x \in todo : TRUE
         IN  owned_free_handles(owned_free_handle(st, a), todo \ {a})

owned_resource_free_handle(st) ==
    owned_free_handles(
        IF st.handle_valid
        THEN [st EXCEPT !.table = @ \ {<<"resource", 0>>},
                        !.handle_valid = FALSE]
        ELSE st,
        OwnedList(st))

\* dxgallocation_destroy(alloc): dxgallocation_stop, the allocation is taken
\* off its owner's list, its handle is freed, its memory is released
owned_allocation_destroy(st, a) ==
    LET unlinked == IF st.alloc[a].resource_owner
                    THEN [st EXCEPT !.alloc[a].linked = FALSE]
                    ELSE st
        freed == owned_free_handle(unlinked, a)
    IN  [freed EXCEPT !.alloc[a].mem = "freed"]

\* a variant of the loop that destroys nothing
owned_destroy_allocs_none(st, todo) == st

\* list_for_each_entry_safe(alloc, tmp, &resource->alloc_list_head, ...)
\*     dxgallocation_destroy(alloc);
RECURSIVE owned_destroy_allocs(_, _)
owned_destroy_allocs(st, todo) ==
    IF todo = {} THEN st
    ELSE LET a == CHOOSE x \in todo : TRUE
         IN  owned_destroy_allocs(owned_allocation_destroy(st, a), todo \ {a})

\* dxgallocation_create, and the allocation's handle is registered
OwnedAllocCreate(a, with_handle) ==
    /\ owned.alloc[a].mem = "none"
    /\ owned' = [owned EXCEPT
                    !.alloc[a] = [NoOwnedAlloc EXCEPT
                                     !.mem = "live",
                                     !.handle_valid = with_handle],
                    !.table = IF with_handle
                              THEN @ \cup {<<"allocation", a>>} ELSE @]
    /\ UNCHANGED notOwnedVars

\* dxgresource_is_active(resource)
owned_resource_is_active(st) == st.object_state = "ACTIVE"

\* dxgresource_add_alloc(resource, alloc), under alloc_list_lock: ret is
\* -ENODEV; if the resource is active the allocation goes to the tail of
\* its list and ret is 0; alloc->resource_owner = 1 in either case
OwnedAddAlloc(a) ==
    /\ owned.alloc[a].mem = "live"
    /\ ~owned.alloc[a].resource_owner
    /\ owned' = IF owned_resource_is_active(owned)
                THEN [owned EXCEPT !.alloc[a].linked = TRUE,
                                   !.alloc[a].resource_owner = TRUE,
                                   !.add_ret = 0]
                ELSE [owned EXCEPT !.alloc[a].resource_owner = TRUE,
                                   !.add_ret = -ENODEV]
    /\ UNCHANGED notOwnedVars

\* dxgallocation_destroy of one allocation, under alloc_list_lock
OwnedAllocDestroy(a) ==
    /\ owned.alloc[a].mem = "live"
    /\ owned' = owned_allocation_destroy(owned, a)
    /\ UNCHANGED notOwnedVars

\* dxgresource_destroy(resource), alloc_list_lock held by the caller:
\* destroyed = test_and_set_bit(0, &resource->flags); the first call frees
\* the handles and destroys the allocations of the list
OwnedResourceDestroy ==
    /\ owned.destroy_calls < MaxOwnedDestroys
    /\ owned' =
         LET called == [owned EXCEPT !.flags = 1, !.destroy_calls = @ + 1]
         IN  IF owned.flags = 0
             THEN LET unregistered == owned_resource_free_handle(called)
                      emptied == owned_destroy_allocs(unregistered,
                                                      OwnedList(unregistered))
                  IN  [emptied EXCEPT !.on_list = OwnedList(owned)]
             ELSE called
    /\ UNCHANGED notOwnedVars

NextOwned ==
    \/ \E a \in OwnedAllocs, h \in BOOLEAN : OwnedAllocCreate(a, h)
    \/ \E a \in OwnedAllocs : OwnedAddAlloc(a)
    \/ \E a \in OwnedAllocs : OwnedAllocDestroy(a)
    \/ OwnedResourceDestroy

\* the allocations that were on the list at the first dxgresource_destroy
\* are off the list, without a registered handle, and their memory is
\* released
FirstDestroyReleased ==
    \A a \in owned.on_list :
        /\ owned.alloc[a].mem = "freed"
        /\ ~owned.alloc[a].linked
        /\ ~owned.alloc[a].handle_valid
        /\ <<"allocation", a>> \notin owned.table

\* C28: the first dxgresource_destroy of a resource leaves its allocation
\* list empty, and every allocation that was on the list has had its handle
\* taken out of the handle table and its memory released (and stays so).
C28_DestroyTakesAllocations ==
    /\ [][(owned.flags = 0 /\ owned'.flags = 1) =>
             /\ OwnedList(owned') = {}
             /\ owned'.on_list = OwnedList(owned)
             /\ <<"resource", 0>> \notin owned'.table]_vars
    /\ []FirstDestroyReleased

\* the resource was destroyed with every allocation on its list, one of
\* them with a registered handle; the list is empty and the table too
C28_Witness ==
    /\ owned.flags = 1
    /\ owned.on_list = OwnedAllocs
    /\ OwnedList(owned) = {}
    /\ owned.table = {}
    /\ \A a \in OwnedAllocs : owned.alloc[a].mem = "freed"

\* C35: a resource goes ACTIVE -> DESTROYED.  After dxgresource_destroy the
\* resource is not active, and a dxgresource_add_alloc on it returns -ENODEV
\* and links no allocation to it.
C35_DestroyedResourceRefusesAllocations ==
    /\ [](owned.flags = 1 => ~owned_resource_is_active(owned))
    /\ [][\A a \in OwnedAllocs :
             (/\ owned.flags = 1
              /\ ~owned.alloc[a].resource_owner
              /\ owned'.alloc[a].resource_owner)
                 => (owned'.add_ret = -ENODEV /\ ~owned'.alloc[a].linked)]_vars

(***************************************************************************)
(* dxgdevice_stop against dxgdevice_destroy on one device (dxgadapter.c)   *)
(***************************************************************************)
\* most entries a child list holds when the threads start
NumKids == 1

\* the thread running dxgadapter_stop and the one running dxgdevice_destroy
StopThread == "stop"
DestroyThread == "destroy"
ListThreads == {StopThread, DestroyThread}

\* device->alloc_list_head, resource_list_head, context_list_head,
\* syncobj_list_head, pqueue_list_head
ChildLists == {"alloc", "resource", "context", "syncobj", "pqueue"}

\* dxgglobal's process_adapter_mutex, adapter_info->device_list_mutex,
\* device->device_lock, alloc_list_lock, context_list_lock and the lock of
\* the process's handle table
ListLocks == {"process_adapter_mutex", "device_list_mutex", "device_lock",
              "alloc_list_lock", "context_list_lock", "hmgrtable_lock"}

\* a thread that is not walking a list
NoCursor == [list |-> "none", elem |-> 0]

\* the device once it is ACTIVE (or still CREATED), on its process's device
\* list, with n[L] entries on child list L; no lock held
ListsStart(state, n) ==
    [object_state |-> state,
     listed |-> TRUE,
     handle_valid |-> (state = "ACTIVE"),
     list |-> [L \in ChildLists |-> 1..n[L]],
     lock |-> [k \in ListLocks |-> "nobody"],
     pc |-> [t \in ListThreads |-> "idle"],
     via |-> "none",
     cursor |-> [t \in ListThreads |-> NoCursor],
     accesses |-> {},
     raced |-> FALSE]

\* the device just created, its child lists empty, no thread running
ListsIdle ==
    lists = ListsStart("CREATED", [L \in ChildLists |-> 0])

InitLists ==
    \E state \in {"CREATED", "ACTIVE"}, n \in [ChildLists -> 0..NumKids] :
        lists = ListsStart(state, n)

\* the locks thread t holds
HeldLocks(st, t) == {k \in ListLocks : st.lock[k] = t}

\* down_write / mutex_lock / hmgrtable_lock, and their release
ListsAcquire(st, t, k) == [st EXCEPT !.lock[k] = t]
ListsRelease(st, t, k) == [st EXCEPT !.lock[k] = "nobody"]

ListsGoto(st, t, label) == [st EXCEPT !.pc[t] = label]

\* thread t reads or writes child list L: the access is recorded with the
\* locks t holds
ListAccess(st, t, L) ==
    [st EXCEPT !.accesses = @ \cup {<<L, HeldLocks(st, t)>>}]

Least(S) == CHOOSE x \in S : \A y \in S : x <= y

\* list_del(&x->..._list_entry) by thread t; raced records that another
\* thread was walking the same list at that moment
ListRemove(st, t, L, x) ==
    [ListAccess(st, t, L) EXCEPT
        !.list[L] = @ \ {x},
        !.raced = @ \/ (\E u \in ListThreads \ {t} : st.cursor[u].list = L)]

\* One step of list_for_each_entry over child list L by thread t (the loop
\* bodies are placeholders or leave the list alone): the first step reads
\* the head, each later step reads the current entry's next pointer.  An
\* entry taken off the list meanwhile has next = NULL (or LIST_POISON1):
\* the read faults and the thread stops where it is, with its locks.
ListWalk(st, t, L, after) ==
    LET c == st.cursor[t] IN
    IF c.list # L
    THEN LET s1 == ListAccess(st, t, L) IN
         IF st.list[L] = {}
         THEN ListsGoto(s1, t, after)
         ELSE [s1 EXCEPT !.cursor[t] = [list |-> L, elem |-> Least(st.list[L])]]
    ELSE IF c.elem \notin st.list[L]
    THEN [st EXCEPT !.pc[t] = "oops", !.cursor[t] = NoCursor]
    ELSE LET rest == {x \in st.list[L] : x > c.elem} IN
         IF rest = {}
         THEN [ListsGoto(st, t, after) EXCEPT !.cursor[t] = NoCursor]
         ELSE [st EXCEPT !.cursor[t].elem = Least(rest)]

\* where dxgdevice_stop returns to
AfterStop(t) == IF t = StopThread THEN "pas_unlock" ELSE "dd_lock_alloc"

\* the lock a step waits for (none for the other steps)
ListsWaitsFor(label) ==
    CASE label \in {"stop_lock_alloc", "dd_lock_alloc", "dd_syncobj_destroy"}
             -> "alloc_list_lock"
      [] label \in {"stop_lock_table", "dd_free_handle"} -> "hmgrtable_lock"
      [] label = "dd_lock_context" -> "context_list_lock"
      [] label = "dd_enter" -> "device_lock"
      [] label \in {"pas_lock", "dd_cleanup"} -> "device_list_mutex"
      [] OTHER -> "none"

\* dxgdevice_stop(device), statement by statement
dxgdevice_stop_lists(st, t) ==
    CASE st.pc[t] = "stop_lock_alloc" ->
             ListsGoto(ListsAcquire(st, t, "alloc_list_lock"), t, "stop_allocs")
      [] st.pc[t] = "stop_allocs" ->
             ListWalk(st, t, "alloc", "stop_unlock_alloc")
      [] st.pc[t] = "stop_unlock_alloc" ->
             ListsGoto(ListsRelease(st, t, "alloc_list_lock"), t,
                       "stop_lock_table")
      [] st.pc[t] = "stop_lock_table" ->
             ListsGoto(ListsAcquire(st, t, "hmgrtable_lock"), t, "stop_pqueues")
      [] st.pc[t] = "stop_pqueues" ->
             ListWalk(st, t, "pqueue", "stop_syncobjs")
      [] st.pc[t] = "stop_syncobjs" ->
             ListWalk(st, t, "syncobj", "stop_unlock_table")
      [] st.pc[t] = "stop_unlock_table" ->
             ListsGoto(ListsRelease(st, t, "hmgrtable_lock"), t, AfterStop(t))

StopLabels == {"stop_lock_alloc", "stop_allocs", "stop_unlock_alloc",
               "stop_lock_table", "stop_pqueues", "stop_syncobjs",
               "stop_unlock_table"}

\* dxgdevice_destroy(device) from the first list to the last
dxgdevice_destroy_lists(st, t) ==
    CASE st.pc[t] = "dd_lock_alloc" ->
             ListsGoto(ListsAcquire(st, t, "alloc_list_lock"), t, "dd_syncobjs")
      [] st.pc[t] = "dd_syncobjs" ->
             \* while (!list_empty(&device->syncobj_list_head))
             IF st.list["syncobj"] = {}
             THEN ListsGoto(ListAccess(st, t, "syncobj"), t, "dd_allocs")
             ELSE ListsGoto(
                      ListsRelease(
                          ListRemove(st, t, "syncobj",
                                     Least(st.list["syncobj"])),
                          t, "alloc_list_lock"),
                      t, "dd_syncobj_destroy")
      [] st.pc[t] = "dd_syncobj_destroy" ->
             \* dxgsyncobject_destroy (a placeholder), then the lock again
             ListsGoto(ListsAcquire(st, t, "alloc_list_lock"), t, "dd_syncobjs")
      [] st.pc[t] = "dd_allocs" ->
             \* dxgallocation_destroy -> dxgdevice_remove_alloc, per entry
             IF st.list["alloc"] = {}
             THEN ListsGoto(ListAccess(st, t, "alloc"), t, "dd_resources")
             ELSE ListRemove(st, t, "alloc", Least(st.list["alloc"]))
      [] st.pc[t] = "dd_resources" ->
             \* dxgresource_destroy -> dxgdevice_remove_resource, per entry
             IF st.list["resource"] = {}
             THEN ListsGoto(
                      ListsRelease(ListAccess(st, t, "resource"), t,
                                   "alloc_list_lock"),
                      t, "dd_lock_context")
             ELSE ListRemove(st, t, "resource", Least(st.list["resource"]))
      [] st.pc[t] = "dd_lock_context" ->
             ListsGoto(ListsAcquire(st, t, "context_list_lock"), t,
                       "dd_contexts")
      [] st.pc[t] = "dd_contexts" ->
             \* dxgcontext_destroy -> dxgdevice_remove_context, per entry
             IF st.list["context"] = {}
             THEN ListsGoto(
                      ListsRelease(ListAccess(st, t, "context"), t,
                                   "context_list_lock"),
                      t, "dd_pqueues")
             ELSE ListRemove(st, t, "context", Least(st.list["context"]))
      [] st.pc[t] = "dd_pqueues" ->
             \* dxgpagingqueue_destroy is a placeholder: nothing is removed
             ListWalk(st, t, "pqueue", "dd_free_handle")
      [] st.pc[t] = "dd_free_handle" ->
             \* hmgrtable_lock; hmgrtable_free_handle; hmgrtable_unlock; with
             \* a handle, device_lock is dropped around the destroy-device
             \* message and taken again
             ListsGoto([st EXCEPT !.handle_valid = FALSE], t, "dd_cleanup")

DestroyLabels == {"dd_lock_alloc", "dd_syncobjs", "dd_syncobj_destroy",
                  "dd_allocs", "dd_resources", "dd_lock_context",
                  "dd_contexts", "dd_pqueues", "dd_free_handle"}

\* the lock the thread's next statement needs is free
ListsCanRun(t) ==
    LET k == ListsWaitsFor(lists.pc[t]) IN
    IF k = "none" THEN TRUE ELSE lists.lock[k] = "nobody"

\* dxgadapter_stop: dxgglobal_acquire_process_adapter_lock() and the walk of
\* the adapter's processes
AdapterStopWalk ==
    /\ lists.pc[StopThread] = "idle"
    /\ lists.lock["process_adapter_mutex"] = "nobody"
    /\ lists' = ListsGoto(ListsAcquire(lists, StopThread,
                                       "process_adapter_mutex"),
                          StopThread, "pas_lock")
    /\ UNCHANGED notListsVars

\* dxgprocess_adapter_stop: mutex_lock(&device_list_mutex) and the walk of
\* the device list
ProcessAdapterStopLock ==
    /\ lists.pc[StopThread] = "pas_lock"
    /\ ListsCanRun(StopThread)
    /\ lists' = ListsGoto(ListsAcquire(lists, StopThread, "device_list_mutex"),
                          StopThread,
                          IF lists.listed THEN "stop_lock_alloc"
                          ELSE "pas_unlock")
    /\ UNCHANGED notListsVars

\* a statement of dxgdevice_stop, in either thread
DeviceStopStep(t) ==
    /\ lists.pc[t] \in StopLabels
    /\ ListsCanRun(t)
    /\ lists' = dxgdevice_stop_lists(lists, t)
    /\ UNCHANGED notListsVars

\* mutex_unlock(&device_list_mutex); dxgglobal_release_process_adapter_lock()
ProcessAdapterStopUnlock ==
    /\ lists.pc[StopThread] = "pas_unlock"
    /\ lists' = ListsGoto(
                    ListsRelease(
                        ListsRelease(lists, StopThread, "device_list_mutex"),
                        StopThread, "process_adapter_mutex"),
                    StopThread, "done")
    /\ UNCHANGED notListsVars

\* dxgdevice_destroy called on a device that is on its process's device list
\* (the call comes from the layer above)
DeviceDestroyCall ==
    /\ lists.pc[DestroyThread] = "idle"
    /\ lists' = [ListsGoto(lists, DestroyThread, "dd_enter")
                    EXCEPT !.via = "direct"]
    /\ UNCHANGED notListsVars

\* dxgprocess_adapter_destroy, called with process_adapter_mutex held: the
\* device is taken off the device list under device_list_mutex, then destroyed
ProcessAdapterDestroy ==
    /\ lists.pc[DestroyThread] = "idle"
    /\ lists.lock["process_adapter_mutex"] = "nobody"
    /\ lists.lock["device_list_mutex"] = "nobody"
    /\ lists.listed
    /\ lists' = [ListsGoto(ListsAcquire(lists, DestroyThread,
                                        "process_adapter_mutex"),
                           DestroyThread, "dd_enter")
                    EXCEPT !.via = "process_adapter", !.listed = FALSE]
    /\ UNCHANGED notListsVars

\* down_write(&device->device_lock); the state check; DESTROYED; then
\* dxgdevice_stop
DeviceDestroyEnter ==
    /\ lists.pc[DestroyThread] = "dd_enter"
    /\ ListsCanRun(DestroyThread)
    /\ lists' =
           LET s1 == ListsAcquire(lists, DestroyThread, "device_lock") IN
           IF lists.object_state # "ACTIVE"
           THEN ListsGoto(s1, DestroyThread, "dd_cleanup")
           ELSE [ListsGoto(s1, DestroyThread, "stop_lock_alloc")
                    EXCEPT !.object_state = "DESTROYED"]
    /\ UNCHANGED notListsVars

\* a statement of dxgdevice_destroy between dxgdevice_stop and cleanup
DeviceDestroyStep ==
    /\ lists.pc[DestroyThread] \in DestroyLabels
    /\ ListsCanRun(DestroyThread)
    /\ lists' = dxgdevice_destroy_lists(lists, DestroyThread)
    /\ UNCHANGED notListsVars

\* cleanup: dxgprocess_adapter_remove_device (under device_list_mutex),
\* up_write(&device->device_lock); the caller of dxgprocess_adapter_destroy
\* releases process_adapter_mutex
DeviceDestroyCleanup ==
    /\ lists.pc[DestroyThread] = "dd_cleanup"
    /\ ListsCanRun(DestroyThread)
    /\ lists' =
           LET s1 == ListsRelease([lists EXCEPT !.listed = FALSE],
                                  DestroyThread, "device_lock")
               s2 == IF lists.via = "process_adapter"
                     THEN ListsRelease(s1, DestroyThread,
                                       "process_adapter_mutex")
                     ELSE s1
           IN  ListsGoto(s2, DestroyThread, "done")
    /\ UNCHANGED notListsVars

NextLists ==
    \/ AdapterStopWalk
    \/ ProcessAdapterStopLock
    \/ \E t \in ListThreads : DeviceStopStep(t)
    \/ ProcessAdapterStopUnlock
    \/ DeviceDestroyCall
    \/ ProcessAdapterDestroy
    \/ DeviceDestroyEnter
    \/ DeviceDestroyStep
    \/ DeviceDestroyCleanup

\* the locks held at every access made so far to child list L
LocksAlwaysHeld(L) ==
    {k \in ListLocks : \A a \in lists.accesses : a[1] = L => k \in a[2]}

\* C30: every traversal or mutation of a device's child lists (allocation,
\* resource, context, sync-object and paging-queue lists) happens under one
\* lock designated for that list, so a dxgdevice_stop running concurrently
\* with dxgdevice_destroy on the same device never walks a child list while
\* the destroy path takes an entry off it.
C30_ChildListsUnderOneLock ==
    /\ \A L \in ChildLists : LocksAlwaysHeld(L) # {}
    /\ ~lists.raced
    /\ \A t \in ListThreads : lists.pc[t] # "oops"

\* thread t is at a statement that takes a lock another thread holds
ListsBlocked(t) ==
    LET k == ListsWaitsFor(lists.pc[t]) IN
    IF k = "none" THEN FALSE ELSE lists.lock[k] \notin {"nobody", t}

\* the thread holding the lock t waits for
ListsBlocker(t) == lists.lock[ListsWaitsFor(lists.pc[t])]

NumProcesses == 2
\* calls of dxgdevice_create
MaxCreateCalls == 3

Processes == 1..NumProcesses

\* The adapter after dxgadapter_create (kref_init: one reference); no process
\* has a binding, no device exists.
InitMade ==
    made = [adapter_kref |-> 1,
            binding |-> [p \in Processes |-> FALSE],
            devices |-> [p \in Processes |-> 0],
            pc |-> "idle", process |-> 0, device_kref |-> 0,
            on_list |-> FALSE, ret |-> "none", calls |-> 0]

\* dxgprocess_adapter_create(process, adapter): kref_get_unless_zero on
\* adapter_kref, the binding goes on the process's list
ProcessAdapterCreate(p) ==
    /\ ~made.binding[p]
    /\ made.adapter_kref > 0
    /\ made' = [made EXCEPT !.binding[p] = TRUE, !.adapter_kref = @ + 1]
    /\ UNCHANGED notMadeVars

\* dxgprocess_adapter_destroy(adapter_info): every device of the list is
\* destroyed (dxgdevice_destroy puts the adapter reference the device took),
\* then the binding's own adapter reference is put and the binding freed
ProcessAdapterDestroyBinding(p) ==
    /\ made.binding[p]
    /\ made' = [made EXCEPT !.binding[p] = FALSE,
                            !.adapter_kref = @ - made.devices[p] - 1,
                            !.devices[p] = 0]
    /\ UNCHANGED notMadeVars

\* if (ret < 0) { kref_put(&device->device_kref, dxgdevice_release);
\*                device = NULL; }
\* dxgdevice_release: vfree(device)
dxgdevice_create_failed(st) ==
    [st EXCEPT !.device_kref = 0, !.ret = "NULL"]

\* dxgdevice_create(adapter, process), first half: vzalloc (ok: it returns
\* memory); kref_init(&device->device_kref); kref_get(&adapter->adapter_kref);
\* the lists and locks are initialised.  When vzalloc fails NULL is returned.
DeviceCreateAlloc(p, ok) ==
    /\ made.pc = "idle"
    /\ made.calls < MaxCreateCalls
    /\ made' = IF ok
               THEN [made EXCEPT !.pc = "dc_add", !.process = p,
                                 !.device_kref = 1, !.adapter_kref = @ + 1,
                                 !.on_list = FALSE, !.ret = "none",
                                 !.calls = @ + 1]
               ELSE [made EXCEPT !.process = p, !.device_kref = 0,
                                 !.on_list = FALSE, !.ret = "NULL",
                                 !.calls = @ + 1]
    /\ UNCHANGED notMadeVars

\* second half: ret = dxgprocess_adapter_add_device(process, adapter, device),
\* which looks up the binding of the process for the adapter under the
\* process-adapter lock: found, the device goes on the binding's list;
\* not found, -EINVAL and the failure branch of dxgdevice_create
DeviceCreateAddDevice ==
    /\ made.pc = "dc_add"
    /\ made' = IF made.binding[made.process]
               THEN [made EXCEPT !.pc = "idle", !.on_list = TRUE,
                                 !.devices[made.process] = @ + 1,
                                 !.ret = "device"]
               ELSE [dxgdevice_create_failed(made) EXCEPT !.pc = "idle"]
    /\ UNCHANGED notMadeVars

NextMade ==
    \/ \E p \in Processes : ProcessAdapterCreate(p)
    \/ \E p \in Processes : ProcessAdapterDestroyBinding(p)
    \/ \E p \in Processes, ok \in BOOLEAN : DeviceCreateAlloc(p, ok)
    \/ DeviceCreateAddDevice

\* the devices on the lists of the bindings of the processes of ps
RECURSIVE DevicesOnLists(_)
DevicesOnLists(ps) ==
    IF ps = {} THEN 0
    ELSE LET p == CHOOSE x \in ps : TRUE
         IN  made.devices[p] + DevicesOnLists(ps \ {p})

\* the references on the adapter that have an owner: the creator's, one per
\* binding, one per device on a list, one for a device being created
AdapterRefsOwned ==
    1 + Cardinality({p \in Processes : made.binding[p]})
      + DevicesOnLists(Processes)
      + (IF made.pc = "dc_add" THEN 1 ELSE 0)

\* C37: when dxgdevice_create fails because the process has no binding for
\* the adapter, the adapter's reference count is what it was before the call:
\* the failing step gives back the reference taken for the device, the
\* device is on no list, and no adapter reference is ever left without an
\* owner.
C37_FailedCreateKeepsAdapterRefs ==
    /\ [][(made.pc = "dc_add" /\ made'.pc = "idle" /\ made'.ret = "NULL")
             => /\ made'.adapter_kref = made.adapter_kref - 1
                /\ made'.devices = made.devices
                /\ ~made'.on_list]_vars
    /\ [](made.adapter_kref = AdapterRefsOwned)

(***************************************************************************)
(* dxgvmb_send_get_stdalloc_data (dxgvmbus.c)                              *)
(***************************************************************************)
\* largest private-data size the caller passes or the host reports
MaxPrivSize == 2

\* enum d3dkmdt_standardallocationtype
StandardAllocationTypes ==
    {"SHAREDPRIMARYSURFACE", "SHADOWSURFACE", "STAGINGSURFACE", "GDISURFACE"}

\* what the host answers: two successes and a failure
StdallocStatuses ==
    {<<"success", 0>>, <<"success", 1>>, <<"failure", "STATUS_NO_MEMORY">>}

\* no call made yet
NoStdalloc ==
    [pc |-> "idle", alloctype |-> "GDISURFACE",
     alloc_priv_driver_size |-> 0, res_priv_data_size |-> 0,
     priv_alloc_data |-> FALSE, priv_res_data |-> FALSE,
     sent |-> FALSE, replied |-> FALSE,
     priv_driver_data_size |-> 0, priv_driver_resource_size |-> 0,
     out_alloc_size |-> 0, out_res_size |-> 0,
     copied_alloc |-> 0, copied_res |-> 0, ret |-> 0]

InitStdalloc == stdalloc = NoStdalloc

\* The call, for an allocation type, the sizes *alloc_priv_driver_size (a)
\* and *res_priv_data_size (r), the buffers priv_alloc_data (pa) and
\* priv_res_data (pr) given or NULL, init_message_res getting its memory
\* (msg_ok), what dxgvmb_send_sync_msg returns (send_ret) and the host's
\* result: status and the two sizes ha and hr.
\*   ret = init_message_res(...); if (ret) goto cleanup;
\*   switch (alloctype) { case GDISURFACE: ...; break;
\*                        default: pr_err(...); goto cleanup; }
\*   ret = dxgvmb_send_sync_msg(...); if (ret < 0) goto cleanup;
\*   ret = ntstatus2int(result->status); if (ret < 0) goto cleanup;
\*   the two size comparisons, each with goto cleanup;
\*   the sizes are written back and the private data copied
dxgvmb_send_get_stdalloc_data(alloctype, a, r, pa, pr, msg_ok, send_ret, status, ha, hr) ==
    LET called == [NoStdalloc EXCEPT !.pc = "ret",
                                     !.alloctype = alloctype,
                                     !.alloc_priv_driver_size = a,
                                     !.res_priv_data_size = r,
                                     !.priv_alloc_data = pa,
                                     !.priv_res_data = pr,
                                     !.out_alloc_size = a,
                                     !.out_res_size = r]
        sent == [called EXCEPT !.sent = TRUE]
        replied == [sent EXCEPT !.replied = TRUE,
                                !.priv_driver_data_size = ha,
                                !.priv_driver_resource_size = hr]
    IN  IF ~msg_ok THEN [called EXCEPT !.ret = -ENOMEM]
        ELSE IF alloctype # "GDISURFACE" THEN [called EXCEPT !.ret = 0]
        ELSE IF send_ret < 0 THEN [sent EXCEPT !.ret = send_ret]
        ELSE IF ntstatus2int(status) < 0
             THEN [sent EXCEPT !.ret = ntstatus2int(status)]
        ELSE IF a # 0 /\ ha # a
             THEN [replied EXCEPT !.ret = ntstatus2int(status)]
        ELSE IF r # 0 /\ hr # r
             THEN [replied EXCEPT !.ret = ntstatus2int(status)]
        ELSE [replied EXCEPT !.ret = ntstatus2int(status),
                             !.out_alloc_size = ha,
                             !.out_res_size = hr,
                             !.copied_alloc = IF pa THEN ha ELSE 0,
                             !.copied_res = IF pr THEN hr ELSE 0]

StdallocCall(alloctype, a, r, pa, pr, msg_ok, send_ret, status, ha, hr) ==
    /\ stdalloc.pc = "idle"
    /\ stdalloc' = dxgvmb_send_get_stdalloc_data(alloctype, a, r, pa, pr,
                                                 msg_ok, send_ret, status,
                                                 ha, hr)
    /\ UNCHANGED notStdallocVars

\* the caller has looked at the result; the next call starts afresh
StdallocReturn ==
    /\ stdalloc.pc = "ret"
    /\ stdalloc' = NoStdalloc
    /\ UNCHANGED notStdallocVars

NextStdalloc ==
    \/ \E alloctype \in StandardAllocationTypes,
          a \in 0..MaxPrivSize, r \in 0..MaxPrivSize,
          pa \in BOOLEAN, pr \in BOOLEAN, msg_ok \in BOOLEAN,
          send_ret \in {0, -EINVAL}, status \in StdallocStatuses,
          ha \in 0..MaxPrivSize, hr \in 0..MaxPrivSize :
           StdallocCall(alloctype, a, r, pa, pr, msg_ok, send_ret, status,
                        ha, hr)
    \/ StdallocReturn

\* the host's answer reports a private-data size that differs from the
\* non-zero size the caller supplied
StdallocSizeMismatch ==
    /\ stdalloc.replied
    /\ \/ /\ stdalloc.alloc_priv_driver_size # 0
          /\ stdalloc.priv_driver_data_size # stdalloc.alloc_priv_driver_size
       \/ /\ stdalloc.res_priv_data_size # 0
          /\ stdalloc.priv_driver_resource_size # stdalloc.res_priv_data_size

\* C40: dxgvmb_send_get_stdalloc_data returns a negative error, never
\* success, when the standard allocation type is not supported or when the
\* host reports a private-data size (allocation or resource) that differs
\* from the non-zero size the caller supplied; on those paths nothing is
\* copied to the caller's buffers.
C40_StdallocErrorsAreNegative ==
    (/\ stdalloc.pc = "ret"
     /\ (stdalloc.alloctype # "GDISURFACE" \/ StdallocSizeMismatch))
        => /\ stdalloc.ret < 0
           /\ stdalloc.copied_alloc = 0
           /\ stdalloc.copied_res = 0

(***************************************************************************)
(* Specifications: one per part; the rest of the state stays as constructed *)
(***************************************************************************)
InitSpecChan ==
    InitChan /\ InitAdapter /\ DeviceCreated /\ InitAlloc /\ InitAsync /\ InitChildren
    /\ InitTableLock
    /\ InitCodec
    /\ InitXmit
    /\ InitCreate
    /\ InitStatus
    /\ InitStray
    /\ InitLife
    /\ InitShared
    /\ InitOwned
    /\ ListsIdle
    /\ InitMade
    /\ InitStdalloc

SpecChan == InitSpecChan /\ [][NextChan]_vars


\* Every caller inside dxgvmb_send_sync_msg keeps running, and the host
\* answers every request the transport accepted.
FairnessChan ==
    /\ \A t \in Callers :
        /\ WF_vars(SendSyncAssignId(t))
        /\ WF_vars(SendSyncListAdd(t))
        /\ WF_vars(\E r \in SendResults : SendSyncSend(t, r))
        /\ WF_vars(SendSyncWait(t))
    /\ \A id \in 1..MaxRequests :
        WF_vars(\E len \in 0..MaxPayload : HostCompletion(id, len))

FairSpecChan == SpecChan /\ FairnessChan

InitSpecAdapter ==
    InitAdapter /\ InitChan /\ DeviceCreated /\ InitAlloc /\ InitAsync /\ InitChildren
    /\ InitTableLock
    /\ InitCodec
    /\ InitXmit
    /\ InitCreate
    /\ InitStatus
    /\ InitStray
    /\ InitLife
    /\ InitShared
    /\ InitOwned
    /\ ListsIdle
    /\ InitMade
    /\ InitStdalloc

SpecAdapter == InitSpecAdapter /\ [][NextAdapter]_vars

\* Scheduling of the adapter part: a thread inside a lock acquisition or
\* holding the lock keeps running (it tests the state, and releases), the
\* host answers 'close adapter', and the rwsem hands the lock to a queued
\* writer that could take it again and again.
FairnessAdapter ==
    \A t \in AdapterThreads :
        /\ SF_vars(ExclusiveLock(t, "ax_lock", "ax_check"))
        /\ WF_vars(ExclusiveCheck(t, "ax_check", "held_x", "ax_fail"))
        /\ WF_vars(ExclusiveRelease(t, "held_x", "lk_released"))
        /\ WF_vars(SharedCheck(t, "as_check", "held_s", "as_fail"))
        /\ WF_vars(SharedRelease(t, "held_s", "lk_released"))
        /\ WF_vars(ExclusiveCheck(t, "sp_check", "sp_close", "sp_destroy"))
        /\ WF_vars(StopCloseAdapter(t))

FairSpecAdapter == SpecAdapter /\ FairnessAdapter

SpecAdapterCalls == InitSpecAdapter /\ [][NextAdapterCalls]_vars

InitSpecDevice ==
    InitDevice /\ InitChan /\ InitAdapter /\ InitAlloc /\ InitAsync /\ InitChildren
    /\ InitTableLock
    /\ InitCodec
    /\ InitXmit
    /\ InitCreate
    /\ InitStatus
    /\ InitStray
    /\ InitLife
    /\ InitShared
    /\ InitOwned
    /\ ListsIdle
    /\ InitMade
    /\ InitStdalloc

SpecDevice == InitSpecDevice /\ [][NextDevice]_vars

InitSpecAlloc ==
    InitAlloc /\ InitChan /\ InitAdapter /\ DeviceCreated /\ InitAsync /\ InitChildren
    /\ InitTableLock
    /\ InitCodec
    /\ InitXmit
    /\ InitCreate
    /\ InitStatus
    /\ InitStray
    /\ InitLife
    /\ InitShared
    /\ InitOwned
    /\ ListsIdle
    /\ InitMade
    /\ InitStdalloc

SpecAlloc == InitSpecAlloc /\ [][NextAlloc]_vars

InitSpecAsync ==
    InitAsync /\ InitChan /\ InitAdapter /\ DeviceCreated /\ InitAlloc
    /\ InitChildren /\ InitTableLock
    /\ InitCodec
    /\ InitXmit
    /\ InitCreate
    /\ InitStatus
    /\ InitStray
    /\ InitLife
    /\ InitShared
    /\ InitOwned
    /\ ListsIdle
    /\ InitMade
    /\ InitStdalloc

SpecAsync == InitSpecAsync /\ [][NextAsync]_vars

\* the caller of dxgvmb_send_async_msg keeps running, and vmbus_sendpacket
\* and the sleep between two attempts return
FairSpecAsync == SpecAsync /\ \A r \in AsyncSendResults : WF_vars(AsyncSend(r))

InitSpecChildren ==
    InitChildren /\ InitChan /\ InitAdapter /\ DeviceCreated /\ InitAlloc
    /\ InitAsync /\ InitTableLock
    /\ InitCodec
    /\ InitXmit
    /\ InitCreate
    /\ InitStatus
    /\ InitStray
    /\ InitLife
    /\ InitShared
    /\ InitOwned
    /\ ListsIdle
    /\ InitMade
    /\ InitStdalloc

SpecChildren == InitSpecChildren /\ [][NextChildren]_vars

InitSpecTableLock ==
    InitTableLock /\ InitChan /\ InitAdapter /\ DeviceCreated /\ InitAlloc
    /\ InitAsync /\ InitChildren
    /\ InitCodec
    /\ InitXmit
    /\ InitCreate
    /\ InitStatus
    /\ InitStray
    /\ InitLife
    /\ InitShared
    /\ InitOwned
    /\ ListsIdle
    /\ InitMade
    /\ InitStdalloc

SpecTableLock == InitSpecTableLock /\ [][NextTableLock]_vars

InitSpecCodec ==
    InitCodec /\ InitChan /\ InitAdapter /\ DeviceCreated /\ InitAlloc
    /\ InitAsync /\ InitChildren /\ InitTableLock
    /\ InitXmit
    /\ InitCreate
    /\ InitStatus
    /\ InitStray
    /\ InitLife
    /\ InitShared
    /\ InitOwned
    /\ ListsIdle
    /\ InitMade
    /\ InitStdalloc

SpecCodec == InitSpecCodec /\ [][NextCodec]_vars

InitSpecXmit ==
    /\ InitXmit
    /\ InitChan
    /\ InitAdapter
    /\ DeviceCreated
    /\ InitAlloc
    /\ InitAsync
    /\ InitChildren
    /\ InitTableLock
    /\ InitCodec
    /\ InitCreate
    /\ InitStatus
    /\ InitStray
    /\ InitLife
    /\ InitShared
    /\ InitOwned
    /\ ListsIdle
    /\ InitMade
    /\ InitStdalloc

\* calls of dxgvmb_send_sync_msg and dxgvmb_send_async_msg with every size
SpecXmit == InitSpecXmit /\ [][NextXmit]_vars

InitSpecCreate ==
    /\ InitCreate
    /\ InitChan
    /\ InitAdapter
    /\ DeviceCreated
    /\ InitAlloc
    /\ InitAsync
    /\ InitChildren
    /\ InitTableLock
    /\ InitCodec
    /\ InitXmit
    /\ InitStatus
    /\ InitStray
    /\ InitLife
    /\ InitShared
    /\ InitOwned
    /\ ListsIdle
    /\ InitMade
    /\ InitStdalloc

\* calls of dxgvmb_send_create_allocation with every count and size
SpecCreate == InitSpecCreate /\ [][NextCreate]_vars

InitSpecStatus ==
    /\ InitStatus
    /\ InitChan
    /\ InitAdapter
    /\ DeviceCreated
    /\ InitAlloc
    /\ InitAsync
    /\ InitChildren
    /\ InitTableLock
    /\ InitCodec
    /\ InitXmit
    /\ InitCreate
    /\ InitStray
    /\ InitLife
    /\ InitShared
    /\ InitOwned
    /\ ListsIdle
    /\ InitMade
    /\ InitStdalloc

\* host calls with every status, in every function that translates it
SpecStatus == InitSpecStatus /\ [][NextStatus]_vars

InitSpecStray ==
    /\ InitStray
    /\ InitChan
    /\ InitAdapter
    /\ DeviceCreated
    /\ InitAlloc
    /\ InitAsync
    /\ InitChildren
    /\ InitTableLock
    /\ InitCodec
    /\ InitXmit
    /\ InitCreate
    /\ InitStatus
    /\ InitLife
    /\ InitShared
    /\ InitOwned
    /\ ListsIdle
    /\ InitMade
    /\ InitStdalloc

\* the channel with requests that fit and sends that succeed, and a host
\* that also sends completions matching nothing
SpecStray == InitSpecStray /\ [][NextStray]_vars

InitSpecLife ==
    /\ InitLife
    /\ InitChan
    /\ InitAdapter
    /\ DeviceCreated
    /\ InitAlloc
    /\ InitAsync
    /\ InitChildren
    /\ InitTableLock
    /\ InitCodec
    /\ InitXmit
    /\ InitCreate
    /\ InitStatus
    /\ InitStray
    /\ InitShared
    /\ InitOwned
    /\ ListsIdle
    /\ InitMade
    /\ InitStdalloc

\* channels initialised with every outcome and destroyed repeatedly
SpecLife == InitSpecLife /\ [][NextLife]_vars

InitSpecShared ==
    /\ InitShared
    /\ InitChan
    /\ InitAdapter
    /\ DeviceCreated
    /\ InitAlloc
    /\ InitAsync
    /\ InitChildren
    /\ InitTableLock
    /\ InitCodec
    /\ InitXmit
    /\ InitCreate
    /\ InitStatus
    /\ InitStray
    /\ InitLife
    /\ InitOwned
    /\ ListsIdle
    /\ InitMade
    /\ InitStdalloc

\* threads adding resources to a shared resource and removing them
SpecShared == InitSpecShared /\ [][NextShared]_vars

InitSpecOwned ==
    /\ InitOwned
    /\ InitChan
    /\ InitAdapter
    /\ DeviceCreated
    /\ InitAlloc
    /\ InitAsync
    /\ InitChildren
    /\ InitTableLock
    /\ InitCodec
    /\ InitXmit
    /\ InitCreate
    /\ InitStatus
    /\ InitStray
    /\ InitLife
    /\ InitShared
    /\ ListsIdle
    /\ InitMade
    /\ InitStdalloc

\* a resource, allocations created, linked and destroyed, and the resource
\* destroyed
SpecOwned == InitSpecOwned /\ [][NextOwned]_vars

InitSpecLists ==
    /\ InitLists
    /\ InitChan
    /\ InitAdapter
    /\ DeviceCreated
    /\ InitAlloc
    /\ InitAsync
    /\ InitChildren
    /\ InitTableLock
    /\ InitCodec
    /\ InitXmit
    /\ InitCreate
    /\ InitStatus
    /\ InitStray
    /\ InitLife
    /\ InitShared
    /\ InitOwned
    /\ InitMade
    /\ InitStdalloc

\* one device between an adapter stop and a device destroy
SpecLists == InitSpecLists /\ [][NextLists]_vars

InitSpecMade ==
    /\ InitMade
    /\ InitChan
    /\ InitAdapter
    /\ DeviceCreated
    /\ InitAlloc
    /\ InitAsync
    /\ InitChildren
    /\ InitTableLock
    /\ InitCodec
    /\ InitXmit
    /\ InitCreate
    /\ InitStatus
    /\ InitStray
    /\ InitLife
    /\ InitShared
    /\ InitOwned
    /\ ListsIdle
    /\ InitStdalloc

\* dxgdevice_create calls of two processes, with and without a binding
SpecMade == InitSpecMade /\ [][NextMade]_vars

InitSpecStdalloc ==
    /\ InitStdalloc
    /\ InitChan
    /\ InitAdapter
    /\ DeviceCreated
    /\ InitAlloc
    /\ InitAsync
    /\ InitChildren
    /\ InitTableLock
    /\ InitCodec
    /\ InitXmit
    /\ InitCreate
    /\ InitStatus
    /\ InitStray
    /\ InitLife
    /\ InitShared
    /\ InitOwned
    /\ ListsIdle
    /\ InitMade

\* calls of dxgvmb_send_get_stdalloc_data, one after the other
SpecStdalloc == InitSpecStdalloc /\ [][NextStdalloc]_vars

=============================================================================
